---------------------------- MODULE Spec2Model ----------------------------
(***************************************************************************)
(* A model of the LinkedIn automation service: the Driver Session          *)
(* (BrowserManager), the element resolver, the Authentication,             *)
(* Relationship and Messaging controllers, and the endpoints composing     *)
(* them.                                                                   *)
(*                                                                         *)
(* Python values are modelled as follows.  A dict is a record whose DOMAIN *)
(* is the set of keys the dict holds.  The values True, False and None     *)
(* returned by the driver primitives are the strings "True", "False" and   *)
(* "None".  A locator (By.X, pattern) is one string "x:pattern".  A URL is *)
(* the sequence of its chunks, so that Python's `a in b` on strings is     *)
(* contiguous-subsequence containment on chunk sequences.  A call of a     *)
(* Python function is an operator from the world before the call to the    *)
(* record [w, ret, exc]: the world after it, the value returned, and the   *)
(* exception raised ("" when none).                                        *)
(***************************************************************************)
EXTENDS Integers, Sequences, FiniteSets, TLC

VARIABLES
    driver,        \* BrowserManager.driver: 0 is None, n > 0 the n-th browser launched
    session_id,    \* BrowserManager.session_id: 0 is None
    is_logged_in,  \* BrowserManager.is_logged_in, the authenticated flag
    current_url,   \* BrowserManager.current_url, the last-known location
    handlers,      \* the endpoint singletons that are not None
    alive,         \* environment: the browser process answers
    liveUrl,       \* environment: the location the browser is at
    page,          \* environment: the locators present on the rendered page
    launched,      \* environment: browsers launched so far
    request,       \* the last operation called, with its arguments
    result,        \* what it returned
    calls          \* the driver calls it made, in order

vars == <<driver, session_id, is_logged_in, current_url, handlers, alive,
          liveUrl, page, launched, request, result, calls>>

(***************************************************************************)
(* Bounds of the model.                                                    *)
(***************************************************************************)
\* browsers that may be launched in one run
MaxLaunch == 2
\* the latest driver call of an operation before which the browser may die
MaxCrashIn == 1

----------------------------------------------------------------------------
(***************************************************************************)
(* Python values.                                                          *)
(***************************************************************************)
None == "None"
PyTrue == "True"
PyFalse == "False"
NoExc == ""

\* bool(v) of a value returned by a driver primitive or by the resolver
Truthy(v) == v # None /\ v # PyFalse

PyBool(b) == IF b THEN PyTrue ELSE PyFalse

Range(s) == {s[i] : i \in 1..Len(s)}

\* Python's `sub in s` on strings, on chunk sequences
Contains(sub, s) ==
    \E i \in 0..(Len(s) - Len(sub)) : SubSeq(s, i + 1, i + Len(sub)) = sub

\* any(indicator in s for indicator in indicators)
AnyIn(indicators, s) == \E k \in 1..Len(indicators) : Contains(indicators[k], s)

\* body(v), with v computed once, before body is applied to it
Bind(v, body(_)) == CHOOSE out \in {body(x) : x \in {v}} : TRUE

\* the result of a call: the world after it, the value returned, the exception raised
Ret(w, v) == [w |-> w, ret |-> v, exc |-> NoExc]
Raise(w, e) == [w |-> w, ret |-> None, exc |-> e]
Raised(r) == r.exc # NoExc

----------------------------------------------------------------------------
(***************************************************************************)
(* URLs, as chunk sequences.  No chunk holds a "/" beside other text, and  *)
(* no chunk is a part of another one, so containment of chunk sequences is *)
(* containment of the strings they spell.                                  *)
(***************************************************************************)
LINKEDIN_BASE_URL == <<"https://", "www.", "linkedin.com">>
LINKEDIN_LOGIN_URL == LINKEDIN_BASE_URL \o <<"/", "login">>
LogoutUrl == LINKEDIN_BASE_URL \o <<"/", "m", "/", "logout", "/">>

\* the location of a browser just launched
BlankUrl == <<"data:,">>
FeedUrl == LINKEDIN_BASE_URL \o <<"/", "feed", "/">>
HomeUrl == LINKEDIN_BASE_URL \o <<"/">>
LoginSubmitUrl == LINKEDIN_BASE_URL \o <<"/", "login", "-", "submit">>
LoginRedirectUrl == LINKEDIN_LOGIN_URL \o <<"?session_redirect=">> \o FeedUrl
CheckpointUrl == LINKEDIN_BASE_URL \o <<"/", "checkpoint", "/", "challenge">>
AuthwallUrl == LINKEDIN_BASE_URL \o <<"/", "authwall">>
UnavailableUrl == LINKEDIN_BASE_URL \o <<"/", "in", "/", "unavailable">>

ProfileBob == LINKEDIN_BASE_URL \o <<"/", "in", "/", "bob">>
ProfileBobby == LINKEDIN_BASE_URL \o <<"/", "in", "/", "bob", "by">>
CompanyUrl == LINKEDIN_BASE_URL \o <<"/", "company", "/", "acme">>

----------------------------------------------------------------------------
(***************************************************************************)
(* The static locator tables.                                              *)
(***************************************************************************)
login_selectors ==
    [email_input |-> <<"id:username", "name:session_key",
                       "css:input[name='session_key']",
                       "css:input[autocomplete='username']">>,
     password_input |-> <<"id:password", "name:session_password",
                          "css:input[name='session_password']",
                          "css:input[type='password']">>,
     login_button |-> <<"css:button[type='submit']",
                        "css:button[data-id='sign-in-form__submit-btn']",
                        "css:.btn__primary--large",
                        "xpath://button[contains(text(), 'Sign in')]",
                        "xpath://button[contains(text(), 'Sign In')]">>,
     captcha_challenge |-> <<"css:.challenge-page", "css:.captcha-challenge",
                             "id:captcha", "css:[data-test-id='challenge-page']">>,
     error_messages |-> <<"css:.form__error--floating", "css:.alert--error",
                          "css:.error-message",
                          "xpath://*[contains(@class, 'error')]">>]

cookie_selectors ==
    <<"css:button[action-type='ACCEPT']", "xpath://button[contains(text(), 'Accept')]",
      "xpath://button[contains(text(), 'Allow')]", "css:.cookie-consent button">>

success_indicators ==
    << <<"/", "feed", "/">>, <<"/", "in", "/">>, <<"/", "mynetwork", "/">>,
       <<"/", "messaging", "/">>, <<"/", "notifications", "/">> >>

\* nav_selectors of _validate_login
nav_selectors ==
    <<"css:nav.global-nav", "css:.global-nav__nav", "css:[data-test-global-nav]",
      "xpath://nav[contains(@class, 'global-nav')]">>

\* nav_selectors of is_logged_in
status_nav_selectors ==
    <<"css:nav.global-nav", "css:.global-nav__nav", "css:[data-test-global-nav]">>

connect_selectors ==
    [primary_connect |-> <<"css:button[aria-label*='Connect']",
                           "css:button[data-control-name='connect']",
                           "xpath://button[contains(text(), 'Connect')]",
                           "xpath://button[contains(@aria-label, 'Connect')]",
                           "css:.pv-s-profile-actions button[data-control-name='connect']",
                           "css:.pv-top-card-v2-ctas button[aria-label*='Connect']",
                           "css:.pvs-profile-actions button[aria-label*='Connect']">>,
     dropdown_connect |-> <<"css:button[aria-label*='More actions']",
                            "css:button[data-control-name='more-actions']",
                            "css:.pv-s-profile-actions__overflow-toggle",
                            "xpath://button[contains(@aria-label, 'More')]">>,
     dropdown_connect_option |->
         <<"xpath://div[contains(@class, 'dropdown')]//button[contains(text(), 'Connect')]",
           "css:.artdeco-dropdown__content button[aria-label*='Connect']",
           "css:[role='menu'] button[data-control-name='connect']">>]

connection_status_selectors ==
    [connected |-> <<"css:button[aria-label*='Message']",
                     "css:button[data-control-name='message']",
                     "xpath://button[contains(text(), 'Message')]",
                     "css:.pv-s-profile-actions button[aria-label*='Message']">>,
     pending |-> <<"css:button[aria-label*='Pending']",
                   "xpath://button[contains(text(), 'Pending')]",
                   "css:button[data-control-name='pending']">>,
     follow |-> <<"css:button[aria-label*='Follow']",
                  "xpath://button[contains(text(), 'Follow')]",
                  "css:button[data-control-name='follow']">>]

profile_indicators ==
    <<"css:.pv-top-card", "css:.pv-text-details__left-panel",
      "css:[data-section='topCard']", "css:.ph5.pb5",
      "xpath://h1[contains(@class, 'text-heading-xlarge')]">>

name_selectors ==
    <<"css:h1.text-heading-xlarge", "css:.pv-text-details__left-panel h1", "css:.ph5 h1">>

headline_selectors ==
    <<"css:.text-body-medium.break-words",
      "css:.pv-text-details__left-panel .text-body-medium">>

note_selectors ==
    <<"css:textarea[name='message']", "css:#custom-message",
      "css:textarea[placeholder*='Add a note']",
      "xpath://textarea[contains(@placeholder, 'note')]">>

send_selectors ==
    <<"css:button[aria-label*='Send']", "xpath://button[contains(text(), 'Send')]",
      "css:button[data-control-name='send-invite']",
      "css:.artdeco-button--primary[type='submit']">>

\* a Message affordance set without the locators of the Connected set: what
\* message_button_selectors must not be
message_button_selectors_variations ==
    <<"css:.pv-top-card-v2-ctas button[aria-label*='Message']",
      "css:.pvs-profile-actions button[aria-label*='Message']",
      "css:a[data-control-name='message']">>

message_button_selectors ==
    <<"css:button[aria-label*='Message']", "css:button[data-control-name='message']",
      "xpath://button[contains(text(), 'Message')]",
      "css:.pv-s-profile-actions button[aria-label*='Message']",
      "css:.pv-top-card-v2-ctas button[aria-label*='Message']",
      "css:.pvs-profile-actions button[aria-label*='Message']",
      "css:a[data-control-name='message']">>

message_compose_selectors ==
    [message_input |-> <<"css:div[data-placeholder='Write a message...']",
                         "css:.msg-form__contenteditable",
                         "css:[data-placeholder*='message']",
                         "css:div[role='textbox']",
                         "xpath://div[@contenteditable='true']">>,
     send_button |-> <<"css:button[data-control-name='send']",
                       "css:button[type='submit'][aria-label*='Send']",
                       "xpath://button[contains(@aria-label, 'Send')]",
                       "css:.msg-form__send-button",
                       "css:button.artdeco-button--primary">>,
     message_thread |-> <<"css:.msg-thread", "css:.msg-conversation-card",
                          "css:[data-control-name='overlay_conversation_thread']">>]

close_selectors ==
    <<"css:button[aria-label*='Close']",
      "css:.msg-overlay-conversation-bubble__controls button",
      "css:[data-control-name='overlay.close_conversation_window']",
      "xpath://button[contains(@aria-label, 'Close')]">>

\* every locator set of the three controllers
LocatorSets ==
    {login_selectors[k] : k \in DOMAIN login_selectors}
    \cup {connect_selectors[k] : k \in DOMAIN connect_selectors}
    \cup {connection_status_selectors[k] : k \in DOMAIN connection_status_selectors}
    \cup {message_compose_selectors[k] : k \in DOMAIN message_compose_selectors}
    \cup {cookie_selectors, nav_selectors, status_nav_selectors, profile_indicators,
          name_selectors, headline_selectors, note_selectors, send_selectors,
          message_button_selectors, close_selectors}


----------------------------------------------------------------------------
(***************************************************************************)
(* The world an operation runs in: the BrowserManager's fields, the        *)
(* browser and the page it renders, and what the site and the browser will *)
(* do during the operation:                                                *)
(*   site       the screens the site shows during the operation: a screen  *)
(*              is what triggers it (a page load or the click of one of    *)
(*              some locators), the locators present on it and its         *)
(*              location (Same: the location requested, or the one it      *)
(*              was); no two screens of a site share a trigger;            *)
(*   faultKind  "crash": the browser process dies before the driver call   *)
(*              that finds faultIn = 0; "inert": the click or typing that  *)
(*              finds faultIn = 0 meets an element that cannot be          *)
(*              interacted with; "quit": driver.quit() raises; "lag": the  *)
(*              screen that a click triggers is rendered late, the first   *)
(*              faultIn presence probes after the click still find the     *)
(*              page without it; "none".                                   *)
(***************************************************************************)
Same == <<>>
\* the trigger of a page load, among the locators whose click triggers a screen
Load == "<get>"
Screen(on, p, u) == [on |-> on, page |-> p, url |-> u]
NoFault == [kind |-> "none", at |-> 0]

World(site, fault) ==
    [driver |-> driver, session_id |-> session_id, is_logged_in |-> is_logged_in,
     current_url |-> current_url, handlers |-> handlers, alive |-> alive,
     liveUrl |-> liveUrl, page |-> page, launched |-> launched,
     site |-> site, faultKind |-> fault.kind, faultIn |-> fault.at,
     calls |-> <<>>]

\* one call on the driver: the browser may die just before it; the call is logged
Call(op, loc, arg) == [op |-> op, loc |-> loc, arg |-> arg, timeout |-> 0]
Probe(loc, timeout) == [op |-> "probe", loc |-> loc, arg |-> <<>>, timeout |-> timeout]

DriverCall(w, c) ==
    Bind(w.faultKind = "crash" /\ w.faultIn = 0, LAMBDA dies :
    Bind(IF w.faultKind = "crash" /\ w.faultIn > 0 THEN w.faultIn - 1 ELSE w.faultIn, LAMBDA left :
        [w EXCEPT !.alive = w.alive /\ ~dies,
                  !.faultKind = IF dies THEN "none" ELSE w.faultKind,
                  !.faultIn = left,
                  !.calls = Append(w.calls, c)]))

\* the exception a driver call raises: none when the browser answers
DriverFault(w) ==
    IF w.driver = 0 THEN "AttributeError"
    ELSE IF ~w.alive THEN "WebDriverException"
    ELSE NoExc

\* a click or a typing reaches its element: whether that element can be interacted with
Interact(w) ==
    Bind(w.faultKind = "inert" /\ w.faultIn = 0, LAMBDA inert :
    Bind(IF w.faultKind = "inert" /\ w.faultIn > 0 THEN w.faultIn - 1 ELSE w.faultIn, LAMBDA left :
        [w |-> [w EXCEPT !.faultKind = IF inert THEN "none" ELSE w.faultKind,
                         !.faultIn = left],
         ok |-> ~inert]))

\* the site answers a page load (trigger Load, to the location requested) or the
\* click of a locator: with the screen that it triggers, if any; else a load shows
\* an empty page at the location requested and a click changes nothing
Show(w, trigger, requested) ==
    IF w.faultKind = "lag" /\ trigger # Load THEN w
    ELSE IF \E scr \in w.site : trigger \in scr.on
    THEN Bind(CHOOSE x \in w.site : trigger \in x.on, LAMBDA scr :
         Bind(IF scr.url # Same THEN scr.url
                   ELSE IF trigger = Load THEN requested ELSE w.liveUrl, LAMBDA to :
             [w EXCEPT !.page = scr.page, !.liveUrl = to]))
    ELSE IF trigger = Load THEN [w EXCEPT !.page = {}, !.liveUrl = requested]
    ELSE w

\* the screens that a click of the operation triggered and that the browser has
\* not rendered yet
Owed(w) ==
    IF w.faultKind # "lag" THEN {}
    ELSE {scr \in w.site :
             \E i \in 1..Len(w.calls) : w.calls[i].op = "click" /\ w.calls[i].loc \in scr.on}

\* the page as a presence probe finds it: a screen owed is rendered once faultIn
\* probes have missed it
Settle(w) ==
    IF Owed(w) = {} THEN w
    ELSE IF w.faultIn > 0 THEN [w EXCEPT !.faultIn = w.faultIn - 1]
    ELSE Bind(CHOOSE scr \in Owed(w) : TRUE, LAMBDA scr :
             [w EXCEPT !.page = scr.page,
                       !.liveUrl = IF scr.url # Same THEN scr.url ELSE w.liveUrl,
                       !.faultKind = "none"])

----------------------------------------------------------------------------
(***************************************************************************)
(* BrowserManager.                                                         *)
(***************************************************************************)
\* launch is what the start of the browser does: "ok", "no_browser" (the process
\* cannot start) or "stealth_fault" (a fault after the handle was stored)
create_stealth_browser(w, launch) ==
    IF launch = "no_browser" THEN Raise(w, "WebDriverException")
    ELSE Bind([w EXCEPT !.driver = w.launched + 1, !.launched = w.launched + 1,
                             !.alive = TRUE, !.page = {}, !.liveUrl = BlankUrl], LAMBDA w1 :
             IF launch = "stealth_fault" THEN Raise(w1, "WebDriverException")
             ELSE Ret([w1 EXCEPT !.session_id = w1.driver], w1.driver))

\* a wait that clicks the element it finds: what smart_wait must not be
smart_wait_clicking(w, locator, timeout) ==
    IF w.driver = 0 THEN Raise(w, "AttributeError")
    ELSE Bind(DriverCall(w, Probe(locator, timeout)), LAMBDA w1 :
             IF DriverFault(w1) # NoExc THEN Raise(w1, DriverFault(w1))
             ELSE IF locator \in w1.page
             THEN Ret(DriverCall(w1, Call("click", locator, <<>>)), PyTrue)
             ELSE Ret(w1, PyFalse))

smart_wait(w, locator, timeout) ==
    IF w.driver = 0 THEN Raise(w, "AttributeError")
    ELSE Bind(DriverCall(w, Probe(locator, timeout)), LAMBDA w1 :
             IF DriverFault(w1) # NoExc THEN Raise(w1, DriverFault(w1))
             ELSE Bind(Settle(w1), LAMBDA w2 : Ret(w2, PyBool(locator \in w2.page))))

smart_click(w, locator, timeout) ==
    Bind(smart_wait(w, locator, timeout), LAMBDA found :
        IF Raised(found) THEN Ret(found.w, PyFalse)
        ELSE IF ~Truthy(found.ret) THEN Ret(found.w, None)
        ELSE Bind(DriverCall(found.w, Call("find", locator, <<>>)), LAMBDA w1 :
             Bind(Interact(w1), LAMBDA it :
                 IF DriverFault(w1) # NoExc \/ locator \notin w1.page \/ ~it.ok
                 THEN Ret(it.w, PyFalse)
                 ELSE Bind(DriverCall(it.w, Call("click", locator, <<>>)), LAMBDA w2 :
                          IF DriverFault(w2) # NoExc THEN Ret(w2, PyFalse)
                          ELSE Ret(Show(w2, locator, Same), PyTrue)))))

RECURSIVE SendKeys(_, _, _, _)
SendKeys(w, locator, text, i) ==
    IF i > Len(text) THEN Ret(w, PyTrue)
    ELSE Bind(DriverCall(w, Call("send_keys", locator, <<text[i]>>)), LAMBDA w1 :
             IF DriverFault(w1) # NoExc THEN Raise(w1, DriverFault(w1))
             ELSE SendKeys(w1, locator, text, i + 1))

\* element.clear(), then element.send_keys(char) for each char of text
ClearAndType(w, locator, text) ==
    Bind(Interact(w), LAMBDA it :
    Bind(DriverCall(it.w, Call("clear", locator, <<>>)), LAMBDA w1 :
        IF ~it.ok THEN Raise(it.w, "ElementNotInteractableException")
        ELSE IF DriverFault(w1) # NoExc THEN Raise(w1, DriverFault(w1))
        ELSE SendKeys(w1, locator, text, 1)))

FindElement(w, locator) ==
    IF w.driver = 0 THEN Raise(w, "AttributeError")
    ELSE Bind(DriverCall(w, Call("find", locator, <<>>)), LAMBDA w1 :
             IF DriverFault(w1) # NoExc THEN Raise(w1, DriverFault(w1))
             ELSE IF locator \notin w1.page THEN Raise(w1, "NoSuchElementException")
             ELSE Ret(w1, locator))

smart_type(w, locator, text, timeout) ==
    Bind(smart_wait(w, locator, timeout), LAMBDA found :
        IF Raised(found) THEN Ret(found.w, PyFalse)
        ELSE IF ~Truthy(found.ret) THEN Ret(found.w, None)
        ELSE Bind(FindElement(found.w, locator), LAMBDA el :
             Bind(ClearAndType(el.w, locator, text), LAMBDA typed :
                 IF Raised(el) THEN Ret(el.w, PyFalse)
                 ELSE IF Raised(typed) THEN Ret(typed.w, PyFalse)
                 ELSE Ret(typed.w, PyTrue))))

\* a navigation that records the location before it loads it: what navigate_to
\* must not be
navigate_to_recording_first(w, url) ==
    IF w.driver = 0 THEN Ret([w EXCEPT !.current_url = url], PyFalse)
    ELSE Bind(DriverCall([w EXCEPT !.current_url = url], Call("get", "", url)), LAMBDA w1 :
             IF DriverFault(w1) # NoExc THEN Ret(w1, PyFalse)
             ELSE Ret(Show(w1, Load, url), PyTrue))

navigate_to(w, url) ==
    IF w.driver = 0 THEN Ret(w, PyFalse)
    ELSE Bind(DriverCall(w, Call("get", "", url)), LAMBDA w1 :
             IF DriverFault(w1) # NoExc THEN Ret(w1, PyFalse)
             ELSE Ret([Show(w1, Load, url) EXCEPT !.current_url = url], PyTrue))

\* driver.current_url, as get_current_url and is_browser_active read it
ReadLocation(w) ==
    IF w.driver = 0 THEN Raise(w, "AttributeError")
    ELSE Bind(DriverCall(w, Call("current_url", "", <<>>)), LAMBDA w1 :
             IF DriverFault(w1) # NoExc THEN Raise(w1, DriverFault(w1))
             ELSE Ret(w1, w1.liveUrl))

get_current_url(w) ==
    Bind(ReadLocation(w), LAMBDA r :
        IF Raised(r) THEN Ret(r.w, r.w.current_url) ELSE r)

is_browser_active(w) ==
    IF w.driver = 0 THEN Ret(w, FALSE)
    ELSE Bind(ReadLocation(w), LAMBDA r :
             Ret(r.w, ~Raised(r)))

\* driver.quit() ends the processes of a live or of a dead browser alike and
\* returns, or raises (fault "quit"): the except branch then leaves the fields
close_browser(w) ==
    IF w.driver = 0 THEN Ret(w, None)
    ELSE Bind(DriverCall(w, Call("quit", "", <<>>)), LAMBDA w1 :
             IF w1.faultKind = "quit" THEN Ret([w1 EXCEPT !.faultKind = "none"], None)
             ELSE Ret([w1 EXCEPT !.driver = 0, !.session_id = 0, !.is_logged_in = FALSE,
                                 !.alive = FALSE, !.page = {}, !.liveUrl = BlankUrl],
                      None))

get_session_info(w) ==
    Bind(is_browser_active(w), LAMBDA active :
    Bind(get_current_url(active.w), LAMBDA loc :
        Ret(loc.w, [session_id |-> w.session_id, is_active |-> active.ret,
                    is_logged_in |-> w.is_logged_in, current_url |-> loc.ret])))


----------------------------------------------------------------------------
(***************************************************************************)
(* Element resolution: _find_element_with_selectors of the three           *)
(* controllers.                                                            *)
(***************************************************************************)
\* a resolution that goes on probing after a hit and returns the last candidate
\* present: what FirstPresent must not be
RECURSIVE LastPresent(_, _, _, _)
LastPresent(w, selectors, timeout, i) ==
    IF i > Len(selectors) THEN Ret(w, None)
    ELSE Bind(smart_wait(w, selectors[i], timeout), LAMBDA present :
             IF Raised(present) THEN present
             ELSE Bind(LastPresent(present.w, selectors, timeout, i + 1), LAMBDA later :
                      IF Raised(later) \/ Truthy(later.ret) \/ ~Truthy(present.ret) THEN later
                      ELSE Ret(later.w, selectors[i])))

\* for selector in selectors[i..]: if smart_wait(selector, timeout): return selector
RECURSIVE FirstPresent(_, _, _, _)
FirstPresent(w, selectors, timeout, i) ==
    IF i > Len(selectors) THEN Ret(w, None)
    ELSE Bind(smart_wait(w, selectors[i], timeout), LAMBDA present :
             IF Raised(present) THEN present
             ELSE IF Truthy(present.ret) THEN Ret(present.w, selectors[i])
             ELSE FirstPresent(present.w, selectors, timeout, i + 1))

\* LinkedInAuth: every probe is made with timeout=2, whatever timeout was passed
AUTH_PROBE_TIMEOUT == 2
Auth_find_element_with_selectors(w, selectors, timeout) ==
    FirstPresent(w, selectors, AUTH_PROBE_TIMEOUT, 1)

Profile_find_element_with_selectors(w, selectors, timeout) ==
    FirstPresent(w, selectors, timeout, 1)

Message_find_element_with_selectors(w, selectors, timeout) ==
    FirstPresent(w, selectors, timeout, 1)


----------------------------------------------------------------------------
(***************************************************************************)
(* LinkedInAuth.                                                           *)
(***************************************************************************)
\* {"success": False, "error": ..., "error_type": ...}
Failure(error, error_type) ==
    [success |-> FALSE, error |-> error, error_type |-> error_type]

RECURSIVE CookieFrom(_, _)
CookieFrom(w, i) ==
    IF i > Len(cookie_selectors) THEN w
    ELSE Bind(smart_wait(w, cookie_selectors[i], 3), LAMBDA present :
             IF Raised(present) THEN present.w
             ELSE IF Truthy(present.ret)
                  THEN smart_click(present.w, cookie_selectors[i], 10).w
             ELSE CookieFrom(present.w, i + 1))

_handle_cookie_banner(w) == CookieFrom(w, 1)

\* a form filling that goes on without the password field: what _fill_login_form
\* must not be
_fill_login_form_without_password(w, username, password) ==
    Bind(Auth_find_element_with_selectors(w, login_selectors.email_input, 10), LAMBDA email_selector :
        IF Raised(email_selector)
        THEN Ret(email_selector.w, Failure("Form filling error", "form_error"))
        ELSE IF ~Truthy(email_selector.ret)
        THEN Ret(email_selector.w,
                 Failure("Could not find email input field", "element_not_found"))
        ELSE
        Bind(smart_type(email_selector.w, email_selector.ret, username, 10), LAMBDA typed :
            IF ~Truthy(typed.ret)
            THEN Ret(typed.w, Failure("Failed to enter username", "input_error"))
            ELSE
            Bind(Auth_find_element_with_selectors(typed.w, login_selectors.password_input, 10), LAMBDA password_selector :
                IF Raised(password_selector)
                THEN Ret(password_selector.w, Failure("Form filling error", "form_error"))
                ELSE IF ~Truthy(password_selector.ret)
                THEN Ret(password_selector.w, [success |-> TRUE])
                ELSE
                Bind(smart_type(password_selector.w, password_selector.ret,
                                         password, 10), LAMBDA typed2 :
                    IF ~Truthy(typed2.ret)
                    THEN Ret(typed2.w, Failure("Failed to enter password", "input_error"))
                    ELSE Ret(typed2.w, [success |-> TRUE])))))

_fill_login_form(w, username, password) ==
    Bind(Auth_find_element_with_selectors(w, login_selectors.email_input, 10), LAMBDA email_selector :
        IF Raised(email_selector)
        THEN Ret(email_selector.w, Failure("Form filling error", "form_error"))
        ELSE IF ~Truthy(email_selector.ret)
        THEN Ret(email_selector.w,
                 Failure("Could not find email input field", "element_not_found"))
        ELSE
        Bind(smart_type(email_selector.w, email_selector.ret, username, 10), LAMBDA typed :
            IF ~Truthy(typed.ret)
            THEN Ret(typed.w, Failure("Failed to enter username", "input_error"))
            ELSE
            Bind(Auth_find_element_with_selectors(typed.w, login_selectors.password_input, 10), LAMBDA password_selector :
                IF Raised(password_selector)
                THEN Ret(password_selector.w, Failure("Form filling error", "form_error"))
                ELSE IF ~Truthy(password_selector.ret)
                THEN Ret(password_selector.w,
                         Failure("Could not find password input field", "element_not_found"))
                ELSE
                Bind(smart_type(password_selector.w, password_selector.ret,
                                         password, 10), LAMBDA typed2 :
                    IF ~Truthy(typed2.ret)
                    THEN Ret(typed2.w, Failure("Failed to enter password", "input_error"))
                    ELSE Ret(typed2.w, [success |-> TRUE])))))

_submit_login_form(w) ==
    Bind(Auth_find_element_with_selectors(w, login_selectors.login_button, 10), LAMBDA login_button_selector :
        IF Raised(login_button_selector)
        THEN Ret(login_button_selector.w, Failure("Form submission error", "submission_error"))
        ELSE IF ~Truthy(login_button_selector.ret)
        THEN Ret(login_button_selector.w,
                 Failure("Could not find login button", "element_not_found"))
        ELSE
        Bind(smart_click(login_button_selector.w, login_button_selector.ret, 10), LAMBDA clicked :
            IF ~Truthy(clicked.ret)
            THEN Ret(clicked.w, Failure("Failed to click login button", "click_error"))
            ELSE Ret(clicked.w, [success |-> TRUE])))

\* driver.find_element(*locator).text; the locator stands for the text read
ElementText(w, locator) ==
    Bind(FindElement(w, locator), LAMBDA el :
    Bind(DriverCall(el.w, Call("text", locator, <<>>)), LAMBDA w1 :
        IF Raised(el) THEN el
        ELSE IF DriverFault(w1) # NoExc THEN Raise(w1, DriverFault(w1))
        ELSE Ret(w1, locator)))

\* a validation that looks for the navigation chrome before it reads the location,
\* and never asks whether the location is still the login page: what
\* _validate_login must not be
_validate_login_chrome_first(w) ==
    Bind(Auth_find_element_with_selectors(w, login_selectors.captcha_challenge, 3), LAMBDA captcha_selector :
    Bind(Auth_find_element_with_selectors(captcha_selector.w, login_selectors.error_messages, 3), LAMBDA error_selector :
    Bind(Auth_find_element_with_selectors(error_selector.w, nav_selectors, 5), LAMBDA nav_found :
    Bind(get_current_url(nav_found.w), LAMBDA url :
        IF Raised(captcha_selector) \/ Raised(error_selector) \/ Raised(nav_found)
        THEN Ret(url.w, Failure("Login validation error", "validation_error"))
        ELSE IF Truthy(captcha_selector.ret)
        THEN Ret(url.w, [success |-> FALSE,
                         error |-> "CAPTCHA challenge detected. Manual intervention required.",
                         error_type |-> "captcha_challenge",
                         requires_manual_action |-> TRUE])
        ELSE IF Truthy(error_selector.ret)
        THEN Ret(url.w, Failure(error_selector.ret, "authentication_error"))
        ELSE IF Truthy(nav_found.ret)
        THEN Ret(url.w, [success |-> TRUE, message |-> "Login successful - navigation found",
                         current_url |-> url.ret])
        ELSE Ret(url.w, [success |-> TRUE, message |-> "Login appears successful",
                         current_url |-> url.ret])))))

_validate_login(w) ==
    Bind(Auth_find_element_with_selectors(w, login_selectors.captcha_challenge, 3), LAMBDA captcha_selector :
    Bind(Failure("Login validation error", "validation_error"), LAMBDA validation_error :
        IF Raised(captcha_selector) THEN Ret(captcha_selector.w, validation_error)
        ELSE IF Truthy(captcha_selector.ret)
        THEN Ret(captcha_selector.w,
                 [success |-> FALSE,
                  error |-> "CAPTCHA challenge detected. Manual intervention required.",
                  error_type |-> "captcha_challenge",
                  requires_manual_action |-> TRUE])
        ELSE
        Bind(Auth_find_element_with_selectors(captcha_selector.w,
                                                 login_selectors.error_messages, 3), LAMBDA error_selector :
            IF Raised(error_selector) THEN Ret(error_selector.w, validation_error)
            ELSE IF Truthy(error_selector.ret)
            THEN Bind(ElementText(error_selector.w, error_selector.ret), LAMBDA error_text :
                     IF Raised(error_text)
                     THEN Ret(error_text.w,
                              Failure("Authentication failed with unknown error",
                                      "authentication_error"))
                     ELSE Ret(error_text.w, Failure(error_text.ret, "authentication_error")))
            ELSE
            Bind(get_current_url(error_selector.w), LAMBDA url :
                IF AnyIn(success_indicators, url.ret)
                THEN Ret(url.w, [success |-> TRUE, message |-> "Login successful",
                                 current_url |-> url.ret])
                ELSE
                Bind(Auth_find_element_with_selectors(url.w, nav_selectors, 5), LAMBDA nav_found :
                    IF Raised(nav_found) THEN Ret(nav_found.w, validation_error)
                    ELSE IF Truthy(nav_found.ret)
                    THEN Ret(nav_found.w,
                             [success |-> TRUE,
                              message |-> "Login successful - navigation found",
                              current_url |-> url.ret])
                    ELSE IF Contains(<<"/", "login">>, url.ret)
                            \/ Contains(<<"/", "challenge">>, url.ret)
                    THEN Ret(nav_found.w,
                             Failure("Still on login page. Check credentials.",
                                     "authentication_error"))
                    ELSE Ret(nav_found.w,
                             [success |-> TRUE, message |-> "Login appears successful",
                              current_url |-> url.ret]))))))

\* a login that starts over once when it fails: what Auth_login must not be
Auth_login_retrying(w, username, password) ==
    LET attempt(w0) ==
            Bind(navigate_to(w0, LINKEDIN_LOGIN_URL), LAMBDA nav :
            Bind(_fill_login_form(_handle_cookie_banner(nav.w), username, password), LAMBDA form_result :
                IF ~Truthy(nav.ret) \/ ~form_result.ret.success THEN form_result
                ELSE Bind(_submit_login_form(form_result.w), LAMBDA submit_result :
                         IF ~submit_result.ret.success THEN submit_result
                         ELSE Bind(_validate_login(submit_result.w), LAMBDA validation_result :
                                  IF validation_result.ret.success
                                  THEN Ret([validation_result.w EXCEPT !.is_logged_in = TRUE],
                                           validation_result.ret)
                                  ELSE validation_result))))
    IN  Bind(attempt(w), LAMBDA first :
            IF first.ret.success THEN first ELSE attempt(first.w))

\* a login that marks the session authenticated as soon as the form is submitted,
\* whatever the validation then finds: what Auth_login must not be
Auth_login_unvalidated(w, username, password) ==
    Bind(navigate_to(w, LINKEDIN_LOGIN_URL), LAMBDA nav :
    Bind(_fill_login_form(_handle_cookie_banner(nav.w), username, password), LAMBDA form_result :
        IF ~Truthy(nav.ret) \/ ~form_result.ret.success THEN form_result
        ELSE Bind(_submit_login_form(form_result.w), LAMBDA submit_result :
                 IF ~submit_result.ret.success THEN submit_result
                 ELSE Bind(_validate_login(submit_result.w), LAMBDA validation_result :
                          Ret([validation_result.w EXCEPT !.is_logged_in = TRUE],
                              validation_result.ret)))))

\* a login that marks the session unauthenticated when its validation fails:
\* what Auth_login must not be
Auth_login_clearing(w, username, password) ==
    Bind(navigate_to(w, LINKEDIN_LOGIN_URL), LAMBDA nav :
        IF ~Truthy(nav.ret)
        THEN Ret(nav.w, Failure("Failed to navigate to LinkedIn login page",
                                "navigation_error"))
        ELSE
        Bind(_handle_cookie_banner(nav.w), LAMBDA w1 :
        Bind(_fill_login_form(w1, username, password), LAMBDA form_result :
            IF ~form_result.ret.success THEN form_result
            ELSE
            Bind(_submit_login_form(form_result.w), LAMBDA submit_result :
                IF ~submit_result.ret.success THEN submit_result
                ELSE
                Bind(_validate_login(submit_result.w), LAMBDA validation_result :
                    Ret([validation_result.w EXCEPT
                             !.is_logged_in = validation_result.ret.success],
                        validation_result.ret))))))

Auth_login(w, username, password) ==
    Bind(navigate_to(w, LINKEDIN_LOGIN_URL), LAMBDA nav :
        IF ~Truthy(nav.ret)
        THEN Ret(nav.w, Failure("Failed to navigate to LinkedIn login page",
                                "navigation_error"))
        ELSE
        Bind(_handle_cookie_banner(nav.w), LAMBDA w1 :
        Bind(_fill_login_form(w1, username, password), LAMBDA form_result :
            IF ~form_result.ret.success THEN form_result
            ELSE
            Bind(_submit_login_form(form_result.w), LAMBDA submit_result :
                IF ~submit_result.ret.success THEN submit_result
                ELSE
                Bind(_validate_login(submit_result.w), LAMBDA validation_result :
                    IF validation_result.ret.success
                    THEN Ret([validation_result.w EXCEPT !.is_logged_in = TRUE],
                             validation_result.ret)
                    ELSE validation_result)))))

Auth_is_logged_in(w) ==
    Bind(is_browser_active(w), LAMBDA active :
        IF ~active.ret THEN Ret(active.w, FALSE)
        ELSE
        Bind(get_current_url(active.w), LAMBDA url :
            IF Contains(<<"/", "login">>, url.ret) THEN Ret(url.w, FALSE)
            ELSE
            Bind(Auth_find_element_with_selectors(url.w, status_nav_selectors, 3), LAMBDA nav_found :
                IF Raised(nav_found) THEN Ret(nav_found.w, FALSE)
                ELSE Ret(nav_found.w, nav_found.ret # None))))

Auth_logout(w) ==
    Bind(navigate_to(w, LogoutUrl), LAMBDA nav :
        IF Truthy(nav.ret)
        THEN Ret([nav.w EXCEPT !.is_logged_in = FALSE],
                 [success |-> TRUE, message |-> "Logged out successfully"])
        ELSE Ret(nav.w, [success |-> FALSE, error |-> "Failed to logout"]))


----------------------------------------------------------------------------
(***************************************************************************)
(* ProfileHandler.                                                         *)
(***************************************************************************)
\* str.lower(), chunk by chunk
LowerChunk(c) ==
    CASE c = "LinkedIn.com" -> "linkedin.com"
      [] c = "WWW." -> "www."
      [] c = "HTTPS://" -> "https://"
      [] c = "IN" -> "in"
      [] OTHER -> c

Lower(url) == [i \in 1..Len(url) |-> LowerChunk(url[i])]

linkedin_patterns ==
    << <<"linkedin.com", "/", "in", "/">>,
       <<"www.", "linkedin.com", "/", "in", "/">>,
       <<"https://", "linkedin.com", "/", "in", "/">>,
       <<"https://", "www.", "linkedin.com", "/", "in", "/">> >>

_is_valid_linkedin_profile_url(url) == AnyIn(linkedin_patterns, Lower(url))

_validate_profile_page(w) ==
    Bind(Profile_find_element_with_selectors(w, profile_indicators, 3), LAMBDA found :
        IF Raised(found)
        THEN Ret(found.w, Failure("Profile validation error", "validation_error"))
        ELSE IF Truthy(found.ret) THEN Ret(found.w, [success |-> TRUE])
        ELSE
        Bind(get_current_url(found.w), LAMBDA url :
            IF Contains(<<"/", "authwall">>, url.ret)
            THEN Ret(url.w, Failure("LinkedIn authwall detected - login required",
                                    "auth_required"))
            ELSE IF Contains(<<"/", "unavailable">>, url.ret)
            THEN Ret(url.w, Failure("Profile unavailable or doesn't exist",
                                    "profile_unavailable"))
            ELSE Ret(url.w, Failure("Could not validate profile page", "validation_failed"))))

_extract_profile_info(w) ==
    Bind([name |-> "Unknown", headline |-> "Unknown", location |-> "Unknown"], LAMBDA unknown :
    Bind(Profile_find_element_with_selectors(w, name_selectors, 3), LAMBDA name_element :
    Bind(IF Truthy(name_element.ret)
                THEN ElementText(name_element.w, name_element.ret)
                ELSE name_element, LAMBDA name :
    Bind(IF Truthy(name_element.ret) THEN [unknown EXCEPT !.name = name.ret]
                 ELSE unknown, LAMBDA info1 :
        IF Raised(name_element) THEN Ret(name_element.w, unknown)
        ELSE IF Raised(name) THEN Ret(name.w, unknown)
        ELSE
        Bind(Profile_find_element_with_selectors(name.w, headline_selectors, 3), LAMBDA headline_element :
        Bind(IF Truthy(headline_element.ret)
                        THEN ElementText(headline_element.w, headline_element.ret)
                        ELSE headline_element, LAMBDA headline :
            IF Raised(headline_element) THEN Ret(headline_element.w, info1)
            ELSE IF Raised(headline) THEN Ret(headline.w, info1)
            ELSE IF Truthy(headline_element.ret)
            THEN Ret(headline.w, [info1 EXCEPT !.headline = headline.ret])
            ELSE Ret(headline.w, info1)))))))

\* a navigation that loads whatever URL it is given: what navigate_to_profile
\* must not be
navigate_to_profile_unvalidated(w, profile_url) ==
    Bind(navigate_to(w, profile_url), LAMBDA nav :
        IF ~Truthy(nav.ret)
        THEN Ret(nav.w, Failure("Failed to navigate to profile", "navigation_error"))
        ELSE
        Bind(_validate_profile_page(nav.w), LAMBDA validation_result :
            IF ~validation_result.ret.success THEN validation_result
            ELSE
            Bind(_extract_profile_info(validation_result.w), LAMBDA profile_info :
            Bind(get_current_url(profile_info.w), LAMBDA url :
                Ret(url.w, [success |-> TRUE, message |-> "Profile loaded successfully",
                            profile_info |-> profile_info.ret, current_url |-> url.ret])))))

navigate_to_profile(w, profile_url) ==
    IF ~_is_valid_linkedin_profile_url(profile_url)
    THEN Ret(w, Failure("Invalid LinkedIn profile URL format", "invalid_url"))
    ELSE
    Bind(navigate_to(w, profile_url), LAMBDA nav :
        IF ~Truthy(nav.ret)
        THEN Ret(nav.w, Failure("Failed to navigate to profile", "navigation_error"))
        ELSE
        Bind(_validate_profile_page(nav.w), LAMBDA validation_result :
            IF ~validation_result.ret.success THEN validation_result
            ELSE
            Bind(_extract_profile_info(validation_result.w), LAMBDA profile_info :
            Bind(get_current_url(profile_info.w), LAMBDA url :
                Ret(url.w, [success |-> TRUE, message |-> "Profile loaded successfully",
                            profile_info |-> profile_info.ret, current_url |-> url.ret])))))

\* a chain that asks for Pending before Connected: what StatusChain must not be
StatusChain_pending_first ==
    << [selectors |-> connection_status_selectors.pending, status |-> "pending"],
       [selectors |-> connection_status_selectors.connected, status |-> "connected"],
       [selectors |-> connection_status_selectors.follow, status |-> "not_connected"],
       [selectors |-> connect_selectors.primary_connect, status |-> "not_connected"],
       [selectors |-> connect_selectors.dropdown_connect, status |-> "not_connected"] >>

\* a chain that stops at the Connect button: what StatusChain must not be
StatusChain_without_overflow ==
    << [selectors |-> connection_status_selectors.connected, status |-> "connected"],
       [selectors |-> connection_status_selectors.pending, status |-> "pending"],
       [selectors |-> connection_status_selectors.follow, status |-> "not_connected"],
       [selectors |-> connect_selectors.primary_connect, status |-> "not_connected"] >>

\* the if / elif chain of check_connection_status over its five locator sets
StatusChain ==
    << [selectors |-> connection_status_selectors.connected, status |-> "connected"],
       [selectors |-> connection_status_selectors.pending, status |-> "pending"],
       [selectors |-> connection_status_selectors.follow, status |-> "not_connected"],
       [selectors |-> connect_selectors.primary_connect, status |-> "not_connected"],
       [selectors |-> connect_selectors.dropdown_connect, status |-> "not_connected"] >>

RECURSIVE ClassifyFrom(_, _)
ClassifyFrom(w, k) ==
    IF k > Len(StatusChain) THEN Ret(w, "unknown")
    ELSE Bind(Profile_find_element_with_selectors(w, StatusChain[k].selectors, 3), LAMBDA found :
             IF Raised(found) THEN found
             ELSE IF Truthy(found.ret) THEN Ret(found.w, StatusChain[k].status)
             ELSE ClassifyFrom(found.w, k + 1))

check_connection_status(w, profile_url) ==
    Bind(get_current_url(w), LAMBDA url :
    Bind(IF ~Contains(profile_url, url.ret)
                      THEN navigate_to_profile(url.w, profile_url)
                      ELSE Ret(url.w, [success |-> TRUE]), LAMBDA nav_result :
        IF ~nav_result.ret.success THEN nav_result
        ELSE
        Bind(ClassifyFrom(nav_result.w, 1), LAMBDA status :
            IF Raised(status)
            THEN Ret(status.w, Failure("Status check error", "status_check_error"))
            ELSE Ret(status.w, [success |-> TRUE, connection_status |-> status.ret,
                                profile_url |-> profile_url]))))

\* a connect step that gives up when the click of the Connect button fails: what
\* _find_and_click_connect_button must not be
_find_and_click_connect_button_without_fallback(w) ==
    Bind(Failure("Connect button error", "connect_button_error"), LAMBDA connect_button_error :
    Bind(Failure("Could not find Connect button in any location",
                             "connect_button_not_found"), LAMBDA not_found :
    Bind(Profile_find_element_with_selectors(w, connect_selectors.primary_connect, 3), LAMBDA connect_selector :
    Bind(IF Truthy(connect_selector.ret)
                   THEN smart_click(connect_selector.w, connect_selector.ret, 10)
                   ELSE Ret(connect_selector.w, PyFalse), LAMBDA clicked :
        IF Raised(connect_selector) THEN Ret(connect_selector.w, connect_button_error)
        ELSE IF Truthy(clicked.ret)
        THEN Ret(clicked.w, [success |-> TRUE, method |-> "primary_button"])
        ELSE IF Truthy(connect_selector.ret) THEN Ret(clicked.w, not_found)
        ELSE
        Bind(Profile_find_element_with_selectors(clicked.w,
                                                    connect_selectors.dropdown_connect, 3), LAMBDA dropdown_selector :
            IF Raised(dropdown_selector) THEN Ret(dropdown_selector.w, connect_button_error)
            ELSE IF ~Truthy(dropdown_selector.ret) THEN Ret(dropdown_selector.w, not_found)
            ELSE
            Bind(smart_click(dropdown_selector.w, dropdown_selector.ret, 10), LAMBDA opened :
                IF ~Truthy(opened.ret) THEN Ret(opened.w, not_found)
                ELSE
                Bind(Profile_find_element_with_selectors(
                            opened.w, connect_selectors.dropdown_connect_option, 3), LAMBDA dropdown_connect :
                    IF Raised(dropdown_connect)
                    THEN Ret(dropdown_connect.w, connect_button_error)
                    ELSE IF ~Truthy(dropdown_connect.ret)
                    THEN Ret(dropdown_connect.w, not_found)
                    ELSE
                    Bind(smart_click(dropdown_connect.w, dropdown_connect.ret, 10), LAMBDA chosen :
                        IF Truthy(chosen.ret)
                        THEN Ret(chosen.w, [success |-> TRUE, method |-> "dropdown_button"])
                        ELSE Ret(chosen.w, not_found)))))))))

_find_and_click_connect_button(w) ==
    Bind(Failure("Connect button error", "connect_button_error"), LAMBDA connect_button_error :
    Bind(Failure("Could not find Connect button in any location",
                             "connect_button_not_found"), LAMBDA not_found :
    Bind(Profile_find_element_with_selectors(w, connect_selectors.primary_connect, 3), LAMBDA connect_selector :
    Bind(IF Truthy(connect_selector.ret)
                   THEN smart_click(connect_selector.w, connect_selector.ret, 10)
                   ELSE Ret(connect_selector.w, PyFalse), LAMBDA clicked :
        IF Raised(connect_selector) THEN Ret(connect_selector.w, connect_button_error)
        ELSE IF Truthy(clicked.ret)
        THEN Ret(clicked.w, [success |-> TRUE, method |-> "primary_button"])
        ELSE
        Bind(Profile_find_element_with_selectors(clicked.w,
                                                    connect_selectors.dropdown_connect, 3), LAMBDA dropdown_selector :
            IF Raised(dropdown_selector) THEN Ret(dropdown_selector.w, connect_button_error)
            ELSE IF ~Truthy(dropdown_selector.ret) THEN Ret(dropdown_selector.w, not_found)
            ELSE
            Bind(smart_click(dropdown_selector.w, dropdown_selector.ret, 10), LAMBDA opened :
                IF ~Truthy(opened.ret) THEN Ret(opened.w, not_found)
                ELSE
                Bind(Profile_find_element_with_selectors(
                            opened.w, connect_selectors.dropdown_connect_option, 3), LAMBDA dropdown_connect :
                    IF Raised(dropdown_connect)
                    THEN Ret(dropdown_connect.w, connect_button_error)
                    ELSE IF ~Truthy(dropdown_connect.ret)
                    THEN Ret(dropdown_connect.w, not_found)
                    ELSE
                    Bind(smart_click(dropdown_connect.w, dropdown_connect.ret, 10), LAMBDA chosen :
                        IF Truthy(chosen.ret)
                        THEN Ret(chosen.w, [success |-> TRUE, method |-> "dropdown_button"])
                        ELSE Ret(chosen.w, not_found)))))))))

_handle_connection_note(w, note) ==
    Bind(Profile_find_element_with_selectors(w, note_selectors, 5), LAMBDA note_selector :
        IF Raised(note_selector) THEN Ret(note_selector.w, Failure("Note error", "note_error"))
        ELSE IF ~Truthy(note_selector.ret) THEN Ret(note_selector.w, [success |-> TRUE])
        ELSE
        Bind(smart_type(note_selector.w, note_selector.ret, note, 10), LAMBDA typed :
            IF Truthy(typed.ret) THEN Ret(typed.w, [success |-> TRUE])
            ELSE Ret(typed.w, Failure("Failed to type connection note", "note_input_error"))))

\* a confirmation that takes a dialog without Send button for a request sent:
\* what _confirm_connection_request must not be
_confirm_connection_request_assumed(w) ==
    Bind(Profile_find_element_with_selectors(w, send_selectors, 10), LAMBDA send_selector :
        IF Raised(send_selector)
        THEN Ret(send_selector.w, Failure("Confirmation error", "confirmation_error"))
        ELSE IF ~Truthy(send_selector.ret)
        THEN Ret(send_selector.w, [success |-> TRUE])
        ELSE
        Bind(smart_click(send_selector.w, send_selector.ret, 10), LAMBDA clicked :
            IF Truthy(clicked.ret) THEN Ret(clicked.w, [success |-> TRUE])
            ELSE Ret(clicked.w, Failure("Failed to click Send button", "send_button_error"))))

_confirm_connection_request(w) ==
    Bind(Profile_find_element_with_selectors(w, send_selectors, 10), LAMBDA send_selector :
        IF Raised(send_selector)
        THEN Ret(send_selector.w, Failure("Confirmation error", "confirmation_error"))
        ELSE IF ~Truthy(send_selector.ret)
        THEN Ret(send_selector.w, Failure("Could not find Send button",
                                          "send_button_not_found"))
        ELSE
        Bind(smart_click(send_selector.w, send_selector.ret, 10), LAMBDA clicked :
            IF Truthy(clicked.ret) THEN Ret(clicked.w, [success |-> TRUE])
            ELSE Ret(clicked.w, Failure("Failed to click Send button", "send_button_error"))))

\* a text argument that is None
NoneText == <<None>>

\* a request that goes for the Connect button whatever the status is, and reports
\* connected and pending only when no button was found: what
\* send_connection_request must not be
send_connection_request_unconditional(w, profile_url, note) ==
    Bind(check_connection_status(w, profile_url), LAMBDA status_result :
        IF ~status_result.ret.success THEN status_result
        ELSE Bind(_find_and_click_connect_button(status_result.w), LAMBDA connect_result :
                 IF ~connect_result.ret.success
                 THEN IF status_result.ret.connection_status = "connected"
                      THEN Ret(connect_result.w,
                               [success |-> FALSE, error |-> "Already connected to this profile",
                                error_type |-> "already_connected",
                                connection_status |-> "connected"])
                      ELSE IF status_result.ret.connection_status = "pending"
                      THEN Ret(connect_result.w,
                               [success |-> FALSE, error |-> "Connection request already pending",
                                error_type |-> "request_pending",
                                connection_status |-> "pending"])
                      ELSE connect_result
                 ELSE Bind(_confirm_connection_request(connect_result.w), LAMBDA confirm_result :
                          IF ~confirm_result.ret.success THEN confirm_result
                          ELSE Ret(confirm_result.w,
                                   [success |-> TRUE,
                                    message |-> "Connection request sent successfully",
                                    had_note |-> note # NoneText,
                                    profile_url |-> profile_url]))))

\* a request that gives up when the note cannot be added: what
\* send_connection_request must not be
send_connection_request_note_required(w, profile_url, note) ==
    Bind(get_current_url(w), LAMBDA url :
    Bind(IF ~Contains(profile_url, url.ret)
                      THEN navigate_to_profile(url.w, profile_url)
                      ELSE Ret(url.w, [success |-> TRUE]), LAMBDA nav_result :
        IF ~nav_result.ret.success THEN nav_result
        ELSE
        Bind(check_connection_status(nav_result.w, profile_url), LAMBDA status_result :
            IF ~status_result.ret.success THEN status_result
            ELSE IF status_result.ret.connection_status = "connected"
            THEN Ret(status_result.w,
                     [success |-> FALSE, error |-> "Already connected to this profile",
                      error_type |-> "already_connected", connection_status |-> "connected"])
            ELSE IF status_result.ret.connection_status = "pending"
            THEN Ret(status_result.w,
                     [success |-> FALSE, error |-> "Connection request already pending",
                      error_type |-> "request_pending", connection_status |-> "pending"])
            ELSE
            Bind(_find_and_click_connect_button(status_result.w), LAMBDA connect_result :
                IF ~connect_result.ret.success THEN connect_result
                ELSE
                Bind(IF note # NoneText /\ note # <<>>
                             THEN _handle_connection_note(connect_result.w, note)
                             ELSE connect_result, LAMBDA noted :
                IF ~noted.ret.success THEN noted
                ELSE
                Bind(_confirm_connection_request(noted.w), LAMBDA confirm_result :
                    IF ~confirm_result.ret.success THEN confirm_result
                    ELSE Ret(confirm_result.w,
                             [success |-> TRUE,
                              message |-> "Connection request sent successfully",
                              had_note |-> note # NoneText,
                              profile_url |-> profile_url])))))))

send_connection_request(w, profile_url, note) ==
    Bind(get_current_url(w), LAMBDA url :
    Bind(IF ~Contains(profile_url, url.ret)
                      THEN navigate_to_profile(url.w, profile_url)
                      ELSE Ret(url.w, [success |-> TRUE]), LAMBDA nav_result :
        IF ~nav_result.ret.success THEN nav_result
        ELSE
        Bind(check_connection_status(nav_result.w, profile_url), LAMBDA status_result :
            IF ~status_result.ret.success THEN status_result
            ELSE IF status_result.ret.connection_status = "connected"
            THEN Ret(status_result.w,
                     [success |-> FALSE, error |-> "Already connected to this profile",
                      error_type |-> "already_connected", connection_status |-> "connected"])
            ELSE IF status_result.ret.connection_status = "pending"
            THEN Ret(status_result.w,
                     [success |-> FALSE, error |-> "Connection request already pending",
                      error_type |-> "request_pending", connection_status |-> "pending"])
            ELSE
            Bind(_find_and_click_connect_button(status_result.w), LAMBDA connect_result :
                IF ~connect_result.ret.success THEN connect_result
                ELSE
                Bind(IF note # NoneText /\ note # <<>>
                             THEN _handle_connection_note(connect_result.w, note)
                             ELSE connect_result, LAMBDA noted :
                Bind(_confirm_connection_request(noted.w), LAMBDA confirm_result :
                    IF ~confirm_result.ret.success THEN confirm_result
                    ELSE Ret(confirm_result.w,
                             [success |-> TRUE,
                              message |-> "Connection request sent successfully",
                              had_note |-> note # NoneText,
                              profile_url |-> profile_url])))))))


----------------------------------------------------------------------------
(***************************************************************************)
(* MessageHandler.                                                         *)
(***************************************************************************)
\* a capability check that reports a missing Message button as an error: what
\* can_send_message must not be
can_send_message_absent_is_error(w, profile_url) ==
    Bind(get_current_url(w), LAMBDA url :
    Bind(IF ~Contains(profile_url, url.ret)
               THEN navigate_to(url.w, profile_url)
               ELSE Ret(url.w, PyTrue), LAMBDA nav :
        IF ~Truthy(nav.ret)
        THEN Ret(nav.w, Failure("Failed to navigate to profile", "navigation_error"))
        ELSE
        Bind(Message_find_element_with_selectors(nav.w, message_button_selectors, 5), LAMBDA message_button :
            IF Raised(message_button) \/ ~Truthy(message_button.ret)
            THEN Ret(message_button.w,
                     Failure("Messaging check error", "messaging_check_error"))
            ELSE Ret(message_button.w,
                     [success |-> TRUE, can_message |-> TRUE,
                      message |-> "Message button found - user is connected",
                      profile_url |-> profile_url]))))

can_send_message(w, profile_url) ==
    Bind(get_current_url(w), LAMBDA url :
    Bind(IF ~Contains(profile_url, url.ret)
               THEN navigate_to(url.w, profile_url)
               ELSE Ret(url.w, PyTrue), LAMBDA nav :
        IF ~Truthy(nav.ret)
        THEN Ret(nav.w, Failure("Failed to navigate to profile", "navigation_error"))
        ELSE
        Bind(Message_find_element_with_selectors(nav.w, message_button_selectors, 5), LAMBDA message_button :
            IF Raised(message_button)
            THEN Ret(message_button.w,
                     Failure("Messaging check error", "messaging_check_error"))
            ELSE IF Truthy(message_button.ret)
            THEN Ret(message_button.w,
                     [success |-> TRUE, can_message |-> TRUE,
                      message |-> "Message button found - user is connected",
                      profile_url |-> profile_url])
            ELSE Ret(message_button.w,
                     [success |-> TRUE, can_message |-> FALSE,
                      message |-> "No Message button found - user might not be connected",
                      profile_url |-> profile_url]))))

\* an opening of the conversation that looks for the thread once: what
\* _open_message_interface must not be
_open_message_interface_single_attempt(w) ==
    Bind(Failure("Interface opening error", "interface_error"), LAMBDA interface_error :
    Bind(Message_find_element_with_selectors(w, message_button_selectors, 10), LAMBDA message_button :
        IF Raised(message_button) THEN Ret(message_button.w, interface_error)
        ELSE IF ~Truthy(message_button.ret)
        THEN Ret(message_button.w,
                 Failure("Could not find Message button", "message_button_not_found"))
        ELSE
        Bind(smart_click(message_button.w, message_button.ret, 10), LAMBDA clicked :
            IF ~Truthy(clicked.ret)
            THEN Ret(clicked.w,
                     Failure("Failed to click Message button", "message_button_click_error"))
            ELSE
            Bind(Message_find_element_with_selectors(
                        clicked.w, message_compose_selectors.message_thread, 10), LAMBDA message_thread :
                IF Raised(message_thread) THEN Ret(message_thread.w, interface_error)
                ELSE IF Truthy(message_thread.ret)
                THEN Ret(message_thread.w, [success |-> TRUE])
                ELSE Ret(message_thread.w, Failure("Message interface did not open properly",
                                                   "interface_not_loaded"))))))

_open_message_interface(w) ==
    Bind(Failure("Interface opening error", "interface_error"), LAMBDA interface_error :
    Bind(Message_find_element_with_selectors(w, message_button_selectors, 10), LAMBDA message_button :
        IF Raised(message_button) THEN Ret(message_button.w, interface_error)
        ELSE IF ~Truthy(message_button.ret)
        THEN Ret(message_button.w,
                 Failure("Could not find Message button", "message_button_not_found"))
        ELSE
        Bind(smart_click(message_button.w, message_button.ret, 10), LAMBDA clicked :
            IF ~Truthy(clicked.ret)
            THEN Ret(clicked.w,
                     Failure("Failed to click Message button", "message_button_click_error"))
            ELSE
            Bind(Message_find_element_with_selectors(
                        clicked.w, message_compose_selectors.message_thread, 10), LAMBDA message_thread :
                IF Raised(message_thread) THEN Ret(message_thread.w, interface_error)
                ELSE IF Truthy(message_thread.ret)
                THEN Ret(message_thread.w, [success |-> TRUE])
                ELSE
                Bind(Message_find_element_with_selectors(
                                 message_thread.w, message_compose_selectors.message_thread, 5), LAMBDA again :
                    IF Raised(again) THEN Ret(again.w, interface_error)
                    ELSE IF Truthy(again.ret) THEN Ret(again.w, [success |-> TRUE])
                    ELSE Ret(again.w, Failure("Message interface did not open properly",
                                              "interface_not_loaded")))))))

\* a typing that hands the whole text to one send_keys call: what
\* _type_message_with_realistic_behavior must not be
_type_message_at_once(w, selector, message) ==
    Bind(FindElement(w, selector), LAMBDA element :
    Bind(Interact(element.w), LAMBDA it :
    Bind(DriverCall(it.w, Call("clear", selector, <<>>)), LAMBDA w1 :
    Bind(DriverCall(w1, Call("send_keys", selector, message)), LAMBDA w2 :
        IF Raised(element) THEN Ret(element.w, PyFalse)
        ELSE IF ~it.ok THEN Ret(it.w, PyFalse)
        ELSE IF DriverFault(w1) # NoExc THEN Ret(w1, PyFalse)
        ELSE IF DriverFault(w2) # NoExc THEN Ret(w2, PyFalse)
        ELSE Ret(w2, PyTrue)))))

_type_message_with_realistic_behavior(w, selector, message) ==
    Bind(FindElement(w, selector), LAMBDA element :
    Bind(ClearAndType(element.w, selector, message), LAMBDA typed :
        IF Raised(element) THEN Ret(element.w, PyFalse)
        ELSE IF Raised(typed) THEN Ret(typed.w, PyFalse)
        ELSE Ret(typed.w, PyTrue)))

_type_message(w, message) ==
    Bind(Message_find_element_with_selectors(
                w, message_compose_selectors.message_input, 10), LAMBDA input_selector :
        IF Raised(input_selector)
        THEN Ret(input_selector.w, Failure("Message typing error", "typing_error"))
        ELSE IF ~Truthy(input_selector.ret)
        THEN Ret(input_selector.w,
                 Failure("Could not find message input field", "input_field_not_found"))
        ELSE
        Bind(smart_click(input_selector.w, input_selector.ret, 10), LAMBDA clicked :
            IF ~Truthy(clicked.ret)
            THEN Ret(clicked.w,
                     Failure("Failed to click message input field", "input_click_error"))
            ELSE
            Bind(_type_message_with_realistic_behavior(
                             clicked.w, input_selector.ret, message), LAMBDA typed :
                IF Truthy(typed.ret) THEN Ret(typed.w, [success |-> TRUE])
                ELSE Ret(typed.w, Failure("Failed to type message", "typing_error")))))

_send_message(w) ==
    Bind(Message_find_element_with_selectors(
                w, message_compose_selectors.send_button, 10), LAMBDA send_button :
        IF Raised(send_button)
        THEN Ret(send_button.w, Failure("Message send error", "send_error"))
        ELSE IF ~Truthy(send_button.ret)
        THEN Ret(send_button.w, Failure("Could not find Send button", "send_button_not_found"))
        ELSE
        Bind(smart_click(send_button.w, send_button.ret, 10), LAMBDA clicked :
            IF ~Truthy(clicked.ret)
            THEN Ret(clicked.w,
                     Failure("Failed to click Send button", "send_button_click_error"))
            ELSE
            Bind(ElementText(clicked.w, message_compose_selectors.message_input[1]), LAMBDA verified :
                Ret(verified.w, [success |-> TRUE]))))

\* a send_message that goes on to the composer whatever the capability check
\* found: what send_message must not be
send_message_unchecked(w, profile_url, message) ==
    Bind(can_send_message(w, profile_url), LAMBDA capability_check :
        IF ~capability_check.ret.success THEN capability_check
        ELSE
        Bind(_open_message_interface(capability_check.w), LAMBDA message_interface_result :
            IF ~message_interface_result.ret.success THEN message_interface_result
            ELSE
            Bind(_type_message(message_interface_result.w, message), LAMBDA type_result :
                IF ~type_result.ret.success THEN type_result
                ELSE
                Bind(_send_message(type_result.w), LAMBDA send_result :
                    IF ~send_result.ret.success THEN send_result
                    ELSE Ret(send_result.w,
                             [success |-> TRUE, message |-> "Message sent successfully",
                              profile_url |-> profile_url, message_text |-> message])))))

send_message(w, profile_url, message) ==
    Bind(can_send_message(w, profile_url), LAMBDA capability_check :
        IF ~capability_check.ret.success THEN capability_check
        ELSE IF ~capability_check.ret.can_message
        THEN Ret(capability_check.w,
                 [success |-> FALSE,
                  error |-> "Cannot send message - not connected to this profile",
                  error_type |-> "not_connected", profile_url |-> profile_url])
        ELSE
        Bind(_open_message_interface(capability_check.w), LAMBDA message_interface_result :
            IF ~message_interface_result.ret.success THEN message_interface_result
            ELSE
            Bind(_type_message(message_interface_result.w, message), LAMBDA type_result :
                IF ~type_result.ret.success THEN type_result
                ELSE
                Bind(_send_message(type_result.w), LAMBDA send_result :
                    IF ~send_result.ret.success THEN send_result
                    ELSE Ret(send_result.w,
                             [success |-> TRUE, message |-> "Message sent successfully",
                              profile_url |-> profile_url, message_text |-> message])))))

\* a close_message_interface without its outer exception handler: what
\* close_message_interface must not be
close_message_interface_unguarded(w) ==
    Bind(Message_find_element_with_selectors(w, close_selectors, 5), LAMBDA close_button :
        IF Raised(close_button) THEN close_button
        ELSE IF Truthy(close_button.ret)
        THEN Bind(smart_click(close_button.w, close_button.ret, 10), LAMBDA clicked :
                 IF Truthy(clicked.ret) THEN Ret(clicked.w, [success |-> TRUE])
                 ELSE Ret(clicked.w,
                          Failure("Failed to click close button", "close_click_error")))
        ELSE
        Bind(DriverCall(close_button.w, Call("find", "tag:body", <<>>)), LAMBDA w1 :
        Bind(DriverCall(w1, Call("send_keys", "tag:body", <<"ESCAPE">>)), LAMBDA w2 :
            IF DriverFault(w1) # NoExc
            THEN Ret(w1, Failure("Could not close message interface", "close_failed"))
            ELSE IF DriverFault(w2) # NoExc
            THEN Ret(w2, Failure("Could not close message interface", "close_failed"))
            ELSE Ret(w2, [success |-> TRUE]))))

close_message_interface(w) ==
    Bind(Message_find_element_with_selectors(w, close_selectors, 5), LAMBDA close_button :
        IF Raised(close_button) THEN Ret(close_button.w, Failure("Close error", "close_error"))
        ELSE IF Truthy(close_button.ret)
        THEN Bind(smart_click(close_button.w, close_button.ret, 10), LAMBDA clicked :
                 IF Truthy(clicked.ret) THEN Ret(clicked.w, [success |-> TRUE])
                 ELSE Ret(clicked.w,
                          Failure("Failed to click close button", "close_click_error")))
        ELSE
        Bind(DriverCall(close_button.w, Call("find", "tag:body", <<>>)), LAMBDA w1 :
        Bind(DriverCall(w1, Call("send_keys", "tag:body", <<"ESCAPE">>)), LAMBDA w2 :
            IF DriverFault(w1) # NoExc
            THEN Ret(w1, Failure("Could not close message interface", "close_failed"))
            ELSE IF DriverFault(w2) # NoExc
            THEN Ret(w2, Failure("Could not close message interface", "close_failed"))
            ELSE Ret(w2, [success |-> TRUE]))))


----------------------------------------------------------------------------
(***************************************************************************)
(* The response models (api/model.py) and the endpoints (api/endpoints.py).*)
(* An Optional field left out is None; session_id None is 0 and            *)
(* current_url None is NoUrl.                                              *)
(***************************************************************************)
NoUrl == <<>>

LoginResponse(success, message, sid, error, error_type, url) ==
    [success |-> success, message |-> message, session_id |-> sid, error |-> error,
     error_type |-> error_type, current_url |-> url]

ConnectResponse(success, message, profile_url, connection_status, had_note, error, error_type, profile_info) ==
    [success |-> success, message |-> message, profile_url |-> profile_url,
     connection_status |-> connection_status, had_note |-> had_note, error |-> error,
     error_type |-> error_type, profile_info |-> profile_info]

CheckConnectionResponse(success, message, profile_url, connection_status, message_sent, message_text, error, error_type) ==
    [success |-> success, message |-> message, profile_url |-> profile_url,
     connection_status |-> connection_status, message_sent |-> message_sent,
     message_text |-> message_text, error |-> error, error_type |-> error_type,
     profile_info |-> None]

CloseSessionResponse(success, message, sid, error) ==
    [success |-> success, message |-> message, session_id |-> sid, error |-> error]

SessionInfoResponse(sid, is_active, logged_in, url) ==
    [session_id |-> sid, is_active |-> is_active, is_logged_in |-> logged_in,
     current_url |-> url, uptime |-> None]

\* d[k] for every k of keys finds a value (no KeyError)
HasKeys(d, keys) == keys \subseteq DOMAIN d

\* dict.get(key) with None for a missing key
GetOrNone(d, k) == IF k \in DOMAIN d THEN d[k] ELSE None

\* raise HTTPException(status_code=..., detail=...)
HTTPException(status_code, error, error_type) ==
    [http |-> status_code,
     body |-> [success |-> FALSE, error |-> error, error_type |-> error_type]]

\* what an endpoint hands back: a response model, sent with status 200
Respond(w, body) == Ret(w, [http |-> 200, body |-> body])

ensure_browser_active(w) ==
    Bind(is_browser_active(w), LAMBDA active :
        IF ~active.ret THEN Raise(active.w, "HTTPException400") ELSE Ret(active.w, None))

\* a guard that asks for a browser and not for the flag: what ensure_logged_in
\* must not be
ensure_session_only(w) == ensure_browser_active(w)

ensure_logged_in(w) ==
    Bind(ensure_browser_active(w), LAMBDA active :
        IF Raised(active) THEN active
        ELSE IF ~active.w.is_logged_in THEN Raise(active.w, "HTTPException401")
        ELSE active)

\* the HTTPException an endpoint re-raises, as the response the client gets
Rejected(r) ==
    IF r.exc = "HTTPException400"
    THEN Ret(r.w, HTTPException(400, "No active browser session. Please login first.",
                                "no_session"))
    ELSE Ret(r.w, HTTPException(401, "Not logged into LinkedIn. Please login first.",
                                "not_authenticated"))

get_linkedin_auth(w) == [w EXCEPT !.handlers = @ \cup {"linkedin_auth"}]
get_profile_handler(w) == [w EXCEPT !.handlers = @ \cup {"profile_handler"}]
get_message_handler(w) == [w EXCEPT !.handlers = @ \cup {"message_handler"}]

login(w, username, password, launch) ==
    Bind(LoginResponse(FALSE, "Login failed due to system error",
                                      0, "<exception>", "system_error", NoUrl), LAMBDA system_error :
    Bind(is_browser_active(w), LAMBDA active :
    Bind(IF ~active.ret THEN create_stealth_browser(active.w, launch) ELSE active, LAMBDA created :
        IF Raised(created) THEN Respond(created.w, system_error)
        ELSE
        Bind(Auth_login(get_linkedin_auth(created.w), username, password), LAMBDA login_result :
            IF login_result.ret.success
            THEN Bind(get_session_info(login_result.w), LAMBDA session_info :
                     IF ~HasKeys(login_result.ret, {"message"})
                     THEN Respond(session_info.w, system_error)
                     ELSE Respond(session_info.w,
                                  LoginResponse(TRUE, login_result.ret.message,
                                                session_info.ret.session_id, None, None,
                                                session_info.ret.current_url)))
            ELSE IF ~HasKeys(login_result.ret, {"error", "error_type"})
                 THEN Respond(login_result.w, system_error)
                 ELSE Respond(login_result.w,
                              LoginResponse(FALSE, "Login failed", 0, login_result.ret.error,
                                            login_result.ret.error_type, NoUrl))))))

connect(w, profile_url, note) ==
    Bind(ConnectResponse(FALSE, "Connection request failed due to system error",
                            profile_url, None, None, "<exception>", "system_error", None), LAMBDA system_error :
    Bind(ensure_logged_in(w), LAMBDA guard :
        IF Raised(guard) THEN Rejected(guard)
        ELSE
        Bind(send_connection_request(get_profile_handler(guard.w), profile_url, note), LAMBDA r :
            IF r.ret.success
            THEN IF ~HasKeys(r.ret, {"message"}) THEN Respond(r.w, system_error)
                 ELSE Respond(r.w, ConnectResponse(TRUE, r.ret.message, profile_url,
                                                   "pending", PyBool(note # NoneText),
                                                   None, None,
                                                   GetOrNone(r.ret, "profile_info")))
            ELSE IF ~HasKeys(r.ret, {"error", "error_type"}) THEN Respond(r.w, system_error)
                 ELSE Respond(r.w, ConnectResponse(FALSE, "Connection request failed",
                                                   profile_url, None, None, r.ret.error,
                                                   r.ret.error_type, None)))))

\* a check_connection that goes on to send_message whenever the status check
\* succeeded, whatever status it returned: what check_connection must not be
check_connection_any_status(w, profile_url, message) ==
    Bind(ensure_logged_in(w), LAMBDA guard :
        IF Raised(guard) THEN Rejected(guard)
        ELSE
        Bind(check_connection_status(get_message_handler(get_profile_handler(guard.w)),
                                        profile_url), LAMBDA status_result :
            IF ~status_result.ret.success
            THEN Respond(status_result.w,
                         CheckConnectionResponse(
                             FALSE, "Failed to check connection status", profile_url,
                             "unknown", None, NoneText, status_result.ret.error,
                             status_result.ret.error_type))
            ELSE Bind(send_message(status_result.w, profile_url, message), LAMBDA message_result :
                     IF message_result.ret.success
                     THEN Respond(message_result.w,
                                  CheckConnectionResponse(
                                      TRUE, "Message sent successfully", profile_url,
                                      status_result.ret.connection_status, PyTrue, message,
                                      None, None))
                     ELSE Respond(message_result.w,
                                  CheckConnectionResponse(
                                      FALSE, "Connected but failed to send message",
                                      profile_url, status_result.ret.connection_status,
                                      PyFalse, NoneText, message_result.ret.error,
                                      message_result.ret.error_type)))))

check_connection(w, profile_url, message) ==
    Bind(CheckConnectionResponse(FALSE, "Check connection failed due to system error",
                                    profile_url, "unknown", None, NoneText,
                                    "<exception>", "system_error"), LAMBDA system_error :
    Bind(ensure_logged_in(w), LAMBDA guard :
        IF Raised(guard) THEN Rejected(guard)
        ELSE
        Bind(check_connection_status(get_message_handler(get_profile_handler(guard.w)),
                                        profile_url), LAMBDA status_result :
            IF ~status_result.ret.success
            THEN IF ~HasKeys(status_result.ret, {"error", "error_type"})
                 THEN Respond(status_result.w, system_error)
                 ELSE Respond(status_result.w,
                              CheckConnectionResponse(
                                  FALSE, "Failed to check connection status", profile_url,
                                  "unknown", None, NoneText, status_result.ret.error,
                                  status_result.ret.error_type))
            ELSE IF status_result.ret.connection_status = "connected"
            THEN Bind(send_message(status_result.w, profile_url, message), LAMBDA message_result :
                     IF message_result.ret.success
                     THEN Respond(message_result.w,
                                  CheckConnectionResponse(
                                      TRUE, "Message sent successfully", profile_url,
                                      "connected", PyTrue, message, None, None))
                     ELSE IF ~HasKeys(message_result.ret, {"error", "error_type"})
                     THEN Respond(message_result.w, system_error)
                     ELSE Respond(message_result.w,
                                  CheckConnectionResponse(
                                      FALSE, "Connected but failed to send message",
                                      profile_url, "connected", PyFalse, NoneText,
                                      message_result.ret.error, message_result.ret.error_type)))
            ELSE Respond(status_result.w,
                         CheckConnectionResponse(
                             FALSE, "Cannot send message - connection status",
                             profile_url, status_result.ret.connection_status, PyFalse,
                             NoneText, "Not connected (status)", "not_connected")))))

\* a close_session that reports a failure when there is no live browser to
\* close: what close_session must not be
close_session_active_only(w) ==
    Bind(get_session_info(w), LAMBDA session_info :
    Bind(close_browser(session_info.w), LAMBDA closed :
        IF ~session_info.ret.is_active
        THEN Respond(closed.w,
                     CloseSessionResponse(FALSE, "Failed to close session", None,
                                          "no active session"))
        ELSE Respond([closed.w EXCEPT !.handlers = {}],
                     CloseSessionResponse(TRUE, "Session closed successfully",
                                          session_info.ret.session_id, None))))

close_session(w) ==
    Bind(get_session_info(w), LAMBDA session_info :
    Bind(close_browser(session_info.w), LAMBDA closed :
        Respond([closed.w EXCEPT !.handlers = {}],
                CloseSessionResponse(TRUE, "Session closed successfully",
                                     session_info.ret.session_id, None))))

Endpoint_get_session_info(w) ==
    Bind(get_session_info(w), LAMBDA session_info :
        Respond(session_info.w,
                SessionInfoResponse(session_info.ret.session_id, session_info.ret.is_active,
                                    session_info.ret.is_logged_in,
                                    session_info.ret.current_url)))


----------------------------------------------------------------------------
(***************************************************************************)
(* The site as the browser renders it.  An element of a page is the set of *)
(* the locators that match it; a page is the union of its elements.        *)
(***************************************************************************)
CookieBanner == {"xpath://button[contains(text(), 'Accept')]"}
EmailField == {"name:session_key", "css:input[name='session_key']",
               "css:input[autocomplete='username']"}
PasswordField == {"id:password", "css:input[type='password']"}
SubmitButton == {"css:button[type='submit']", "xpath://button[contains(text(), 'Sign in')]"}
CaptchaPage == {"id:captcha"}
ErrorBanner == {"css:.alert--error", "xpath://*[contains(@class, 'error')]"}
GlobalNav == {"css:.global-nav__nav", "xpath://nav[contains(@class, 'global-nav')]"}

ProfileHeader == {"css:.ph5.pb5", "xpath://h1[contains(@class, 'text-heading-xlarge')]",
                  "css:h1.text-heading-xlarge", "css:.text-body-medium.break-words"}
MessageButton == {"css:button[data-control-name='message']",
                  "css:.pvs-profile-actions button[aria-label*='Message']"}
PendingButton == {"xpath://button[contains(text(), 'Pending')]"}
FollowButton == {"css:button[aria-label*='Follow']"}
ConnectButton == {"xpath://button[contains(@aria-label, 'Connect')]",
                  "css:.pvs-profile-actions button[aria-label*='Connect']"}
MoreButton == {"css:button[aria-label*='More actions']",
               "xpath://button[contains(@aria-label, 'More')]"}
ConnectOption == {"css:.artdeco-dropdown__content button[aria-label*='Connect']"}
NoteField == {"css:#custom-message"}
InviteSend == {"css:button[aria-label*='Send']"}
Thread == {"css:.msg-conversation-card"}
Composer == {"css:.msg-form__contenteditable", "css:div[role='textbox']"}
MessageSend == {"css:.msg-form__send-button", "xpath://button[contains(@aria-label, 'Send')]"}

Page(elements) == UNION elements

\* the faults of one operation: none, the browser dying before one of its first
\* driver calls, or its first click or typing meeting an inert element
Faults ==
    {NoFault} \cup {[kind |-> "crash", at |-> n] : n \in 0..MaxCrashIn}
              \cup {[kind |-> "inert", at |-> 0]}

\* the request arguments
Username == <<"b", "o", "b">>
Password == <<"p", "w">>
Notes == {NoneText, <<"h", "i">>}
Messages == {<<"H", "i", "!">>}
ProfileUrls == {ProfileBob}

LoginForm == Page({EmailField, PasswordField, SubmitButton})

\* what the login surface shows, and what the site answers to the submit click
LoginSites ==
    {{Screen({Load}, form, Same), after} :
        form \in {LoginForm, LoginForm \cup CookieBanner, {}},
        after \in {Screen(SubmitButton, CaptchaPage, CheckpointUrl),
                   Screen(SubmitButton, ErrorBanner, Same),
                   Screen(SubmitButton, GlobalNav, FeedUrl),
                   Screen(SubmitButton, {}, Same),
                   Screen(SubmitButton, {}, HomeUrl)}}

\* the profiles the site can show
Profiles ==
    {Screen({Load}, Page({ProfileHeader, MessageButton, MoreButton}), Same),
     Screen({Load}, Page({ProfileHeader, PendingButton, MoreButton}), Same),
     Screen({Load}, Page({ProfileHeader, ConnectButton, MoreButton}), Same),
     Screen({Load}, Page({ProfileHeader, FollowButton, MoreButton}), Same),
     Screen({Load}, {}, AuthwallUrl)}

\* a profile, its overflow menu, and the invitation dialog
ConnectSites ==
    {{profile,
      Screen(MoreButton, profile.page \cup ConnectOption, Same),
      Screen(ConnectButton \cup ConnectOption, dialog, Same)} :
        profile \in Profiles,
        dialog \in {Page({NoteField, InviteSend}), InviteSend, {}}}

\* a profile and the conversation its Message button opens
MessageSites ==
    {{profile, Screen(MessageButton, profile.page \cup conversation, Same)} :
        profile \in Profiles,
        conversation \in {Page({Thread, Composer, MessageSend}), Composer}}

----------------------------------------------------------------------------
(***************************************************************************)
(* The service: the endpoints called one at a time on the one shared       *)
(* session, the public operations of the Authentication Controller called  *)
(* directly, and the browser process dying between two operations.         *)
(***************************************************************************)
Idle == [op |-> "none"]

\* the state after construction: BrowserManager.__init__ and the module globals
Init ==
    /\ driver = 0
    /\ session_id = 0
    /\ is_logged_in = FALSE
    /\ current_url = NoUrl
    /\ handlers = {}
    /\ alive = FALSE
    /\ liveUrl = BlankUrl
    /\ page = {}
    /\ launched = 0
    /\ request = Idle
    /\ result = [value |-> None, exc |-> NoExc]
    /\ calls = <<>>

\* the operation req ran and ended as r; a run launches at most MaxLaunch browsers
Apply(req, r) ==
    /\ r.w.launched <= MaxLaunch
    /\ driver' = r.w.driver
    /\ session_id' = r.w.session_id
    /\ is_logged_in' = r.w.is_logged_in
    /\ current_url' = r.w.current_url
    /\ handlers' = r.w.handlers
    /\ alive' = r.w.alive
    /\ liveUrl' = r.w.liveUrl
    /\ page' = r.w.page
    /\ launched' = r.w.launched
    /\ request' = req
    /\ result' = [value |-> r.ret, exc |-> r.exc]
    /\ calls' = r.w.calls

BrowserUp == driver # 0 /\ alive

Login ==
    /\ request = Idle
    /\ \/ /\ \E site \in LoginSites, fault \in Faults :
                \E r \in {login(World(site, fault), Username, Password, "ok")} :
                    Apply([op |-> "login", launch |-> "ok", fault |-> fault], r)
       \/ /\ ~BrowserUp
          /\ \E launch \in {"no_browser", "stealth_fault"} :
                \E r \in {login(World({}, NoFault), Username, Password, launch)} :
                    Apply([op |-> "login", launch |-> launch, fault |-> NoFault], r)

Connect ==
    /\ request = Idle
    /\ \E profile_url \in ProfileUrls, note \in Notes, site \in ConnectSites,
          fault \in Faults :
            \E r \in {connect(World(site, fault), profile_url, note)} :
                Apply([op |-> "connect", profile_url |-> profile_url, note |-> note,
                       fault |-> fault], r)

CheckConnection ==
    /\ request = Idle
    /\ \E profile_url \in ProfileUrls, message \in Messages, site \in MessageSites,
          fault \in Faults :
            \E r \in {check_connection(World(site, fault), profile_url, message)} :
                Apply([op |-> "check_connection", profile_url |-> profile_url,
                       message |-> message, fault |-> fault], r)

\* GET /close; the request records whether a browser handle existed
CloseSession ==
    /\ request = Idle
    /\ \E fault \in {NoFault, [kind |-> "quit", at |-> 0]} :
          \E r \in {close_session(World({}, fault))} :
              Apply([op |-> "close_session", fault |-> fault, handle |-> driver # 0], r)

SessionInfo ==
    /\ request = Idle
    /\ \E r \in {Endpoint_get_session_info(World({}, NoFault))} :
          Apply([op |-> "get_session_info"], r)

Logout ==
    /\ request = Idle
    /\ \E fault \in {NoFault, [kind |-> "crash", at |-> 0]} :
          \E r \in {Auth_logout(World({}, fault))} :
              Apply([op |-> "logout", fault |-> fault], r)

StatusCheck ==
    /\ request = Idle
    /\ \E r \in {Auth_is_logged_in(World({}, NoFault))} : Apply([op |-> "is_logged_in"], r)

\* the response reaches the client
Deliver ==
    /\ request # Idle
    /\ request' = Idle
    /\ result' = [value |-> None, exc |-> NoExc]
    /\ calls' = <<>>
    /\ UNCHANGED <<driver, session_id, is_logged_in, current_url, handlers, alive,
                   liveUrl, page, launched>>

\* the browser process dies
BrowserDies ==
    /\ request = Idle
    /\ BrowserUp
    /\ alive' = FALSE
    /\ UNCHANGED <<driver, session_id, is_logged_in, current_url, handlers, liveUrl,
                   page, launched, request, result, calls>>

Next ==
    \/ Login
    \/ Connect
    \/ CheckConnection
    \/ CloseSession
    \/ SessionInfo
    \/ Logout
    \/ StatusCheck
    \/ Deliver
    \/ BrowserDies

Spec == Init /\ [][Next]_vars

----------------------------------------------------------------------------
(***************************************************************************)
(* Element resolution on its own: a live browser showing any page made of  *)
(* the locators of ResolvePool, and any controller resolving any of the    *)
(* locator sets on it, the browser answering or dying at some probe.       *)
(***************************************************************************)
ResolvePool ==
    Range(connection_status_selectors.connected) \cup Range(connection_status_selectors.pending)

Controllers == {"auth", "profile", "message"}

\* self._find_element_with_selectors(selectors, timeout) of a controller
Resolve_with(controller, w, selectors, timeout) ==
    CASE controller = "auth" -> Auth_find_element_with_selectors(w, selectors, timeout)
      [] controller = "profile" -> Profile_find_element_with_selectors(w, selectors, timeout)
      [] controller = "message" -> Message_find_element_with_selectors(w, selectors, timeout)

InitResolve ==
    /\ driver = 1
    /\ session_id = 1
    /\ is_logged_in \in BOOLEAN
    /\ current_url \in {NoUrl, LINKEDIN_LOGIN_URL}
    /\ handlers = {}
    /\ alive = TRUE
    /\ liveUrl = BlankUrl
    /\ page \in SUBSET ResolvePool
    /\ launched = 1
    /\ request = Idle
    /\ result = [value |-> None, exc |-> NoExc]
    /\ calls = <<>>

Resolve ==
    /\ request = Idle
    /\ \E controller \in Controllers, selectors \in LocatorSets,
          fault \in {NoFault} \cup {[kind |-> "crash", at |-> n] : n \in 0..MaxCrashIn} :
            \E r \in {Resolve_with(controller, World({}, fault), selectors, 3)} :
                Apply([op |-> "resolve", controller |-> controller,
                       selectors |-> selectors, fault |-> fault], r)

NextResolve ==
    \/ Resolve
    \/ Deliver

SpecResolve == InitResolve /\ [][NextResolve]_vars

----------------------------------------------------------------------------
(***************************************************************************)
(* Login against every post-submit evidence: a live browser, the login     *)
(* form, and after the submit click any combination of challenge surface,  *)
(* inline error and navigation chrome at any of AfterSubmitUrls.  The      *)
(* Authentication Controller is called directly and through the endpoint.  *)
(***************************************************************************)
AfterSubmitUrls ==
    {Same, LoginSubmitUrl, LoginRedirectUrl, CheckpointUrl, FeedUrl, HomeUrl}

EvidenceSites ==
    {{Screen({Load}, LoginForm, Same), Screen(SubmitButton, Page(evidence), url)} :
        evidence \in SUBSET {CaptchaPage, ErrorBanner, GlobalNav},
        url \in AfterSubmitUrls}

InitLogin ==
    /\ driver = 1
    /\ session_id = 1
    /\ is_logged_in = FALSE
    /\ current_url = NoUrl
    /\ handlers = {"linkedin_auth"}
    /\ alive = TRUE
    /\ liveUrl = BlankUrl
    /\ page = {}
    /\ launched = 1
    /\ request = Idle
    /\ result = [value |-> None, exc |-> NoExc]
    /\ calls = <<>>

\* linkedin_auth.login(username, password)
AuthLogin ==
    /\ request = Idle
    /\ \E site \in EvidenceSites, fault \in Faults :
          \E r \in {Auth_login(World(site, fault), Username, Password)} :
              Apply([op |-> "auth_login", fault |-> fault], r)

\* POST /login
EndpointLogin ==
    /\ request = Idle
    /\ \E site \in EvidenceSites, fault \in Faults :
          \E r \in {login(World(site, fault), Username, Password, "ok")} :
              Apply([op |-> "login", launch |-> "ok", fault |-> fault], r)

\* the login surface with any of its fields, its button and its cookie banner
\* missing
PartialForms ==
    {Page(f) : f \in SUBSET {CookieBanner, EmailField, PasswordField, SubmitButton}}

\* the faults of a login: the browser dies before any of its driver calls, or
\* any of the elements it types into or clicks is inert
MaxLoginCrash == 24
MaxLoginInert == 3
LoginFaults ==
    Faults \cup {[kind |-> "crash", at |-> n] : n \in 0..MaxLoginCrash}
           \cup {[kind |-> "inert", at |-> n] : n \in 0..MaxLoginInert}

\* linkedin_auth.login(username, password) on a login surface that lacks fields
AuthLoginOnForm ==
    /\ request = Idle
    /\ \E form \in PartialForms, fault \in LoginFaults :
          \E r \in {Auth_login(World({Screen({Load}, form, Same),
                                      Screen(SubmitButton, GlobalNav, FeedUrl)}, fault),
                               Username, Password)} :
              Apply([op |-> "auth_login", fault |-> fault, form |-> form], r)

NextLogin ==
    \/ AuthLogin
    \/ EndpointLogin
    \/ AuthLoginOnForm
    \/ Deliver

SpecLogin == InitLogin /\ [][NextLogin]_vars

----------------------------------------------------------------------------
(***************************************************************************)
(* The ProfileHandler against every profile: a live, authenticated browser *)
(* at any of the starting points of StartPoints, and a site whose profile  *)
(* page shows any combination of the five affordances, with or without the *)
(* profile header, or answers with the authwall or the unavailable page.   *)
(***************************************************************************)
Affordances == {MessageButton, PendingButton, FollowButton, ConnectButton, MoreButton}

\* where the browser is when the operation is called: on the profile (or on one
\* whose URL holds the URL asked for), on a blank tab, on the feed
StartPoints ==
    {[url |-> u, page |-> Page(a \cup {ProfileHeader})] :
        u \in {ProfileBob, ProfileBobby}, a \in SUBSET Affordances}
    \cup {[url |-> BlankUrl, page |-> {}], [url |-> FeedUrl, page |-> GlobalNav]}

\* what the site answers to the load of a profile
ProfileLoads ==
    {Screen({Load}, Page(a \cup h), Same) :
        a \in SUBSET Affordances, h \in {{ProfileHeader}, {}}}
    \cup {Screen({Load}, {}, AuthwallUrl), Screen({Load}, {}, UnavailableUrl)}

\* a profile, its overflow menu and the invitation dialog
InviteSite(profile) ==
    {profile,
     Screen(MoreButton, profile.page \cup ConnectOption, Same),
     Screen(ConnectButton \cup ConnectOption, Page({NoteField, InviteSend}), Same)}

\* the call as the properties see it: its arguments, the fault met, whether the
\* browser was at a location holding profile_url, and the page that the
\* classification is given: the page shown if so, else the page the site loads
StatusRequest(op, profile_url, profile, fault) ==
    [op |-> op, profile_url |-> profile_url, fault |-> fault,
     at_profile |-> Contains(profile_url, liveUrl),
     evidence |-> IF Contains(profile_url, liveUrl) THEN page ELSE profile.page]

InitStatus ==
    /\ driver = 1
    /\ session_id = 1
    /\ is_logged_in = TRUE
    /\ current_url = LINKEDIN_LOGIN_URL
    /\ handlers = {"linkedin_auth", "profile_handler"}
    /\ alive = TRUE
    /\ \E start \in StartPoints : liveUrl = start.url /\ page = start.page
    /\ launched = 1
    /\ request = Idle
    /\ result = [value |-> None, exc |-> NoExc]
    /\ calls = <<>>

\* profile_handler.check_connection_status(profile_url)
CheckStatus ==
    /\ request = Idle
    /\ \E profile_url \in ProfileUrls, profile \in ProfileLoads,
          fault \in {NoFault} \cup {[kind |-> "crash", at |-> n] : n \in 0..MaxCrashIn} :
            \E r \in {check_connection_status(World({profile}, fault), profile_url)} :
                Apply(StatusRequest("check_connection_status", profile_url, profile, fault), r)

\* profile_handler.send_connection_request(profile_url, note)
SendRequest ==
    /\ request = Idle
    /\ \E profile_url \in ProfileUrls, note \in Notes, profile \in ProfileLoads,
          fault \in {NoFault, [kind |-> "inert", at |-> 0]} :
            \E r \in {send_connection_request(World(InviteSite(profile), fault),
                                              profile_url, note)} :
                Apply(StatusRequest("send_connection_request", profile_url, profile, fault), r)

\* POST /check_connection; the Message button opens a conversation with its
\* thread, its composer and its Send button
CheckAndMessage ==
    /\ request = Idle
    /\ \E profile_url \in ProfileUrls, message \in Messages, profile \in ProfileLoads,
          fault \in {NoFault, [kind |-> "crash", at |-> MaxCrashIn]} :
          \E req \in {StatusRequest("check_connection", profile_url, profile, fault)} :
          \E r \in {check_connection(
                        World({profile,
                               Screen(Range(message_button_selectors),
                                      req.evidence \cup Page({Thread, Composer, MessageSend}),
                                      Same)}, fault),
                        profile_url, message)} :
              Apply(req, r)

NextStatus ==
    \/ CheckStatus
    \/ SendRequest
    \/ CheckAndMessage
    \/ Deliver

SpecStatus == InitStatus /\ [][NextStatus]_vars

----------------------------------------------------------------------------
(***************************************************************************)
(* The MessageHandler against every profile and conversation: a live,      *)
(* authenticated browser at any of the starting points of MessageStarts, a *)
(* site whose profile shows the Message button or not, and whose Message   *)
(* button opens any of the conversations of Conversations.                 *)
(***************************************************************************)
MessageTexts == {<<>>, <<"H", "i", "!">>, <<"a", "b", "a", "b">>}

\* what a click on the Message button adds to the page: any of the thread, the
\* composer and the Send button, or all three matched by their last locators only
Conversations ==
    {Page(c) : c \in SUBSET {Thread, Composer, MessageSend}}
    \cup {Thread \cup {"css:div[role='textbox']", "css:.msg-form__send-button"}}

\* where the browser is when the operation is called: on the profile (or on one
\* whose URL holds the URL asked for), or on a blank tab
MessageStarts ==
    {[url |-> ProfileBob, page |-> Page(a)] : a \in SUBSET {ProfileHeader, MessageButton}}
    \cup {[url |-> ProfileBobby, page |-> MessageButton], [url |-> BlankUrl, page |-> {}]}

\* what the site answers to the load of a profile
MessageLoads ==
    {Screen({Load}, Page(a), Same) : a \in SUBSET {ProfileHeader, MessageButton}}
    \cup {Screen({Load}, {}, AuthwallUrl)}

\* the call as the properties see it: its arguments, the fault met, whether the
\* browser was at a location holding profile_url, the page the capability check
\* is given (the page shown if so, else the page the site loads) and the
\* conversation that a click on the Message button adds to it
MessageRequest(op, profile_url, message, profile, conversation, fault) ==
    [op |-> op, profile_url |-> profile_url, message |-> message, fault |-> fault,
     at_profile |-> Contains(profile_url, liveUrl),
     evidence |-> IF Contains(profile_url, liveUrl) THEN page ELSE profile.page,
     conversation |-> conversation]

\* the profile, and the conversation shown by a click on its Message button
MessageSite(profile, req) ==
    {profile,
     Screen(Range(message_button_selectors), req.evidence \cup req.conversation, Same)}

InitMessage ==
    /\ driver = 1
    /\ session_id = 1
    /\ is_logged_in = TRUE
    /\ current_url = LINKEDIN_LOGIN_URL
    /\ handlers = {"linkedin_auth", "profile_handler", "message_handler"}
    /\ alive = TRUE
    /\ \E start \in MessageStarts : liveUrl = start.url /\ page = start.page
    /\ launched = 1
    /\ request = Idle
    /\ result = [value |-> None, exc |-> NoExc]
    /\ calls = <<>>

\* message_handler.can_send_message(profile_url)
CanSendMessage ==
    /\ request = Idle
    /\ \E profile_url \in ProfileUrls, profile \in MessageLoads, fault \in Faults :
          \E req \in {MessageRequest("can_send_message", profile_url, <<>>, profile,
                                     {}, fault)} :
          \E r \in {can_send_message(World({profile}, fault), profile_url)} :
              Apply(req, r)

\* message_handler.send_message(profile_url, message)
SendMessage ==
    /\ request = Idle
    /\ \E profile_url \in ProfileUrls, message \in MessageTexts,
          profile \in MessageLoads, conversation \in Conversations,
          fault \in Faults :
          \E req \in {MessageRequest("send_message", profile_url, message, profile,
                                     conversation, fault)} :
          \E r \in {send_message(World(MessageSite(profile, req), fault),
                                 profile_url, message)} :
              Apply(req, r)

NextMessage ==
    \/ CanSendMessage
    \/ SendMessage
    \/ Deliver

SpecMessage == InitMessage /\ [][NextMessage]_vars

----------------------------------------------------------------------------
(***************************************************************************)
(* The public operations of the three controllers under driver faults: a   *)
(* session without browser, with a live one or with a dead one, each       *)
(* operation called on a site that lets it run to its last step, and the   *)
(* browser dying before any one of its driver calls, or any one of its     *)
(* clicks and typings meeting an element that cannot be interacted with.   *)
(***************************************************************************)
MaxFaultAt == 60
MaxInertAt == 4

ControllerFaults ==
    {NoFault} \cup {[kind |-> "crash", at |-> n] : n \in 0..MaxFaultAt}
              \cup {[kind |-> "inert", at |-> n] : n \in 0..MaxInertAt}

\* the login surface, answering the submit with the feed or with an inline error
FaultLoginSites ==
    {{Screen({Load}, LoginForm \cup CookieBanner, Same), after} :
        after \in {Screen(SubmitButton, GlobalNav, FeedUrl),
                   Screen(SubmitButton, ErrorBanner, Same)}}

\* a profile to connect with, directly or through its overflow menu, and one
\* to write to, whose conversation has a close button
FaultProfileSites ==
    {InviteSite(Screen({Load}, Page({ProfileHeader, a, MoreButton}), Same)) :
        a \in {ConnectButton, FollowButton}}
    \cup {{Screen({Load}, Page({ProfileHeader, MessageButton}), Same),
           Screen(MessageButton,
                  Page({ProfileHeader, MessageButton, Thread, Composer, MessageSend})
                      \cup {close_selectors[4]}, Same)}}

InitControllers ==
    /\ \/ driver = 0 /\ session_id = 0 /\ launched = 0 /\ alive = FALSE
                     /\ is_logged_in = FALSE
       \/ driver = 1 /\ session_id = 1 /\ launched = 1 /\ alive \in BOOLEAN
                     /\ is_logged_in \in BOOLEAN
    /\ current_url = NoUrl
    /\ handlers = {}
    /\ liveUrl = BlankUrl
    /\ page = {}
    /\ request = Idle
    /\ result = [value |-> None, exc |-> NoExc]
    /\ calls = <<>>

\* linkedin_auth.login, .is_logged_in and .logout
AuthOperation ==
    /\ request = Idle
    /\ \E fault \in ControllerFaults :
          \/ \E site \in FaultLoginSites :
                \E r \in {Auth_login(World(site, fault), Username, Password)} :
                    Apply([op |-> "login", fault |-> fault], r)
          \/ \E r \in {Auth_is_logged_in(World({}, fault))} :
                Apply([op |-> "is_logged_in", fault |-> fault], r)
          \/ \E r \in {Auth_logout(World({}, fault))} :
                Apply([op |-> "logout", fault |-> fault], r)

\* profile_handler.navigate_to_profile, .check_connection_status and
\* .send_connection_request
ProfileOperation ==
    /\ request = Idle
    /\ \E fault \in ControllerFaults, site \in FaultProfileSites,
          profile_url \in {ProfileBob, CompanyUrl} :
          \/ \E r \in {navigate_to_profile(World(site, fault), profile_url)} :
                Apply([op |-> "navigate_to_profile", fault |-> fault], r)
          \/ \E r \in {check_connection_status(World(site, fault), profile_url)} :
                Apply([op |-> "check_connection_status", fault |-> fault], r)
          \/ \E note \in Notes :
             \E r \in {send_connection_request(World(site, fault), profile_url, note)} :
                Apply([op |-> "send_connection_request", fault |-> fault], r)

\* message_handler.can_send_message, .send_message and .close_message_interface
MessageOperation ==
    /\ request = Idle
    /\ \E fault \in ControllerFaults, site \in FaultProfileSites :
          \/ \E r \in {can_send_message(World(site, fault), ProfileBob)} :
                Apply([op |-> "can_send_message", fault |-> fault], r)
          \/ \E message \in Messages :
             \E r \in {send_message(World(site, fault), ProfileBob, message)} :
                Apply([op |-> "send_message", fault |-> fault], r)
          \/ \E r \in {close_message_interface(World(site, fault))} :
                Apply([op |-> "close_message_interface", fault |-> fault], r)

\* browser_manager.smart_wait(locator, timeout), as the resolution loops call it
SmartWait ==
    /\ request = Idle
    /\ \E locator \in GlobalNav \cup MessageButton, timeout \in {3, 5, 10},
          fault \in {NoFault, [kind |-> "crash", at |-> 0]} :
          \E r \in {smart_wait(World({}, fault), locator, timeout)} :
              Apply([op |-> "smart_wait", locator |-> locator, timeout |-> timeout,
                     fault |-> fault], r)

NextControllers ==
    \/ AuthOperation
    \/ ProfileOperation
    \/ MessageOperation
    \/ SmartWait
    \/ Deliver

SpecControllers == InitControllers /\ [][NextControllers]_vars

----------------------------------------------------------------------------
(***************************************************************************)
(* The endpoints on the event loop of the one server process.  Requests    *)
(* arrive together, one task each.  A task that runs keeps the loop until  *)
(* its handler awaits or returns; the loop then starts or resumes another. *)
(* Here request maps each task (named by its operation) to its state, its  *)
(* position in the driver calls of its run and that run; result maps it to *)
(* its response; calls is the log of the driver calls of all the tasks.    *)
(***************************************************************************)
MaxConcurrent == 3

EndpointOps == {"login", "connect", "check_connection", "close_session", "get_session_info"}

\* handlers that await at each of their driver calls: what AwaitPoints must not be
AwaitPoints_every_call(op) == 0..MaxFaultAt

\* the positions of the body of the handler op at which it awaits: the
\* handlers are coroutines whose bodies hold no await expression
AwaitPoints(op) == {}

\* the handler op run on the session as it is
RunOf(op) ==
    CASE op = "login" ->
            login(World({Screen({Load}, LoginForm, Same),
                         Screen(SubmitButton, GlobalNav, FeedUrl)}, NoFault),
                  Username, Password, "ok")
      [] op = "connect" ->
            connect(World(InviteSite(Screen({Load},
                                            Page({ProfileHeader, ConnectButton, MoreButton}),
                                            Same)), NoFault),
                    ProfileBob, NoneText)
      [] op = "check_connection" ->
            check_connection(
                World({Screen({Load}, Page({ProfileHeader, MessageButton}), Same),
                       Screen(MessageButton,
                              Page({ProfileHeader, MessageButton, Thread, Composer,
                                    MessageSend}), Same)}, NoFault),
                ProfileBob, <<"H", "i", "!">>)
      [] op = "close_session" -> close_session(World({}, NoFault))
      [] OTHER -> Endpoint_get_session_info(World({}, NoFault))

Pending == [state |-> "pending", pos |-> 0, run |-> None]

\* a session never opened, or open and authenticated; and the requests in flight
InitAsync ==
    /\ \/ /\ driver = 0 /\ session_id = 0 /\ launched = 0 /\ alive = FALSE
          /\ is_logged_in = FALSE /\ current_url = NoUrl /\ handlers = {}
          /\ liveUrl = BlankUrl /\ page = {}
       \/ /\ driver = 1 /\ session_id = 1 /\ launched = 1 /\ alive = TRUE
          /\ is_logged_in = TRUE /\ current_url = LINKEDIN_LOGIN_URL
          /\ handlers = {"linkedin_auth"}
          /\ liveUrl = FeedUrl /\ page = GlobalNav
    /\ \E ops \in SUBSET EndpointOps :
          /\ Cardinality(ops) \in 2..MaxConcurrent
          /\ request = [t \in ops |-> Pending]
          /\ result = [t \in ops |-> [value |-> None, exc |-> NoExc]]
    /\ calls = <<>>

\* the loop is free for the task t: no other task is running, short of one
\* that awaits
LoopFreeFor(t) ==
    \A u \in DOMAIN request \ {t} :
        request[u].state = "running" => request[u].pos \in AwaitPoints(u)

\* the loop starts the handler of the task t
Start(t) ==
    /\ request[t].state = "pending"
    /\ LoopFreeFor(t)
    /\ \E r \in {RunOf(t)} :
          /\ r.w.launched <= MaxLaunch
          /\ request' = [request EXCEPT ![t] = [state |-> "running", pos |-> 0, run |-> r]]
    /\ UNCHANGED <<driver, session_id, is_logged_in, current_url, handlers, alive,
                   liveUrl, page, launched, result, calls>>

\* the handler of the task t makes its next driver call
Step(t) ==
    /\ request[t].state = "running"
    /\ LoopFreeFor(t)
    /\ request[t].pos < Len(request[t].run.w.calls)
    /\ calls' = Append(calls, [task |-> t, call |-> request[t].run.w.calls[request[t].pos + 1]])
    /\ request' = [request EXCEPT ![t].pos = @ + 1]
    /\ UNCHANGED <<driver, session_id, is_logged_in, current_url, handlers, alive,
                   liveUrl, page, launched, result>>

\* the handler of the task t returns: the session is as its run left it
Finish(t) ==
    /\ request[t].state = "running"
    /\ LoopFreeFor(t)
    /\ request[t].pos = Len(request[t].run.w.calls)
    /\ driver' = request[t].run.w.driver
    /\ session_id' = request[t].run.w.session_id
    /\ is_logged_in' = request[t].run.w.is_logged_in
    /\ current_url' = request[t].run.w.current_url
    /\ handlers' = request[t].run.w.handlers
    /\ alive' = request[t].run.w.alive
    /\ liveUrl' = request[t].run.w.liveUrl
    /\ page' = request[t].run.w.page
    /\ launched' = request[t].run.w.launched
    /\ result' = [result EXCEPT ![t] = [value |-> request[t].run.ret,
                                        exc |-> request[t].run.exc]]
    /\ request' = [request EXCEPT ![t] = [state |-> "done", pos |-> @.pos, run |-> None]]
    /\ UNCHANGED calls

NextAsync ==
    \/ \E t \in DOMAIN request : Start(t)
    \/ \E t \in DOMAIN request : Step(t)
    \/ \E t \in DOMAIN request : Finish(t)

SpecAsync == InitAsync /\ [][NextAsync]_vars

----------------------------------------------------------------------------
(***************************************************************************)
(* The controller operations step by step: an operation makes the driver   *)
(* calls of its run one after the other, and a smart_wait among them polls *)
(* (WebDriverWait.until) until the element is there or timeout seconds     *)
(* have passed.  When the element appears is up to the site; that the      *)
(* polling loop goes on is up to the one thread that runs the operation.   *)
(* While an operation runs, request holds its position in the driver calls *)
(* of its run and the polls made by the wait it is in.                     *)
(***************************************************************************)
\* polls per second of smart_wait: poll_frequency = 0.5
POLLS_PER_SECOND == 2

\* what elapses at one poll that found nothing: what a wait without deadline
\* would not count
NoDeadline(polls) == polls

\* the polls made once one more found nothing
NextPoll(polls) == polls + 1

LiveOps ==
    {"login", "check_connection_status", "send_connection_request", "can_send_message",
     "send_message"}

LiveFaults == {NoFault, [kind |-> "crash", at |-> 9], [kind |-> "inert", at |-> 1]}

\* the run of the operation op on the session as it is
RunLive(op, site, fault) ==
    CASE op = "login" -> Auth_login(World(site, fault), Username, Password)
      [] op = "check_connection_status" ->
            check_connection_status(World(site, fault), ProfileBob)
      [] op = "send_connection_request" ->
            send_connection_request(World(site, fault), ProfileBob, <<"h", "i">>)
      [] op = "can_send_message" -> can_send_message(World(site, fault), ProfileBob)
      [] OTHER -> send_message(World(site, fault), ProfileBob, <<"H", "i", "!">>)

Running == "pos" \in DOMAIN request

\* the driver call the running operation is at
Current == request.run.w.calls[request.pos + 1]

\* the operation is called
Invoke ==
    /\ request = Idle
    /\ \E op \in LiveOps, fault \in LiveFaults :
          \E site \in IF op = "login" THEN FaultLoginSites ELSE FaultProfileSites :
          \E r \in {RunLive(op, site, fault)} :
              request' = [op |-> op, fault |-> fault, pos |-> 0, polls |-> 0, run |-> r]
    /\ calls' = <<>>
    /\ UNCHANGED <<driver, session_id, is_logged_in, current_url, handlers, alive,
                   liveUrl, page, launched, result>>

\* the wait ends: the call is logged and the operation goes on
EndWait ==
    /\ calls' = Append(calls, Current)
    /\ request' = [request EXCEPT !.pos = @ + 1, !.polls = 0]
    /\ UNCHANGED <<driver, session_id, is_logged_in, current_url, handlers, alive,
                   liveUrl, page, launched, result>>

\* one more poll finds nothing: the wait goes on, or ends by TimeoutException
\* once timeout seconds have passed
Tick ==
    /\ Running
    /\ request.pos < Len(request.run.w.calls)
    /\ Current.op = "probe"
    /\ IF request.polls < POLLS_PER_SECOND * Current.timeout
       THEN /\ request' = [request EXCEPT !.polls = NextPoll(@)]
            /\ UNCHANGED <<driver, session_id, is_logged_in, current_url, handlers,
                           alive, liveUrl, page, launched, result, calls>>
       ELSE EndWait

\* the site shows the element, or the browser is gone: the poll returns or raises
Appear ==
    /\ Running
    /\ request.pos < Len(request.run.w.calls)
    /\ Current.op = "probe"
    /\ EndWait

\* a driver call other than a wait
Proceed ==
    /\ Running
    /\ request.pos < Len(request.run.w.calls)
    /\ Current.op # "probe"
    /\ EndWait

\* the operation returns its outcome
Return ==
    /\ Running
    /\ request.pos = Len(request.run.w.calls)
    /\ request' = [op |-> request.op, fault |-> request.fault]
    /\ driver' = request.run.w.driver
    /\ session_id' = request.run.w.session_id
    /\ is_logged_in' = request.run.w.is_logged_in
    /\ current_url' = request.run.w.current_url
    /\ handlers' = request.run.w.handlers
    /\ alive' = request.run.w.alive
    /\ liveUrl' = request.run.w.liveUrl
    /\ page' = request.run.w.page
    /\ launched' = request.run.w.launched
    /\ result' = [value |-> request.run.ret, exc |-> request.run.exc]
    /\ UNCHANGED calls

\* what the caller holds while no operation has returned: every operation
\* here returns a dictionary, and so the empty hand is one as well
NoOutcome == [value |-> [pending |-> TRUE], exc |-> NoExc]

\* the session of InitLogin, with nothing returned yet
InitLive ==
    /\ driver = 1
    /\ session_id = 1
    /\ is_logged_in = FALSE
    /\ current_url = NoUrl
    /\ handlers = {"linkedin_auth"}
    /\ alive = TRUE
    /\ liveUrl = BlankUrl
    /\ page = {}
    /\ launched = 1
    /\ request = Idle
    /\ result = NoOutcome
    /\ calls = <<>>

\* the outcome returned reaches the caller
Handover ==
    /\ ~Running
    /\ request # Idle
    /\ request' = Idle
    /\ result' = NoOutcome
    /\ calls' = <<>>
    /\ UNCHANGED <<driver, session_id, is_logged_in, current_url, handlers, alive,
                   liveUrl, page, launched>>

NextLive ==
    \/ Invoke
    \/ Tick
    \/ Appear
    \/ Proceed
    \/ Return
    \/ Handover

\* the thread that runs the operation is not held up for ever
SpecLive ==
    /\ InitLive
    /\ [][NextLive]_vars
    /\ WF_request(Tick) /\ WF_request(Proceed) /\ WF_request(Return)

----------------------------------------------------------------------------
(***************************************************************************)
(* The profile URL at the boundary and in the core.  A URL drawn from      *)
(* ProfileUrlPool is given to the validator of ConnectRequest, to the one  *)
(* of CheckConnectionRequest and to _is_valid_linkedin_profile_url, and    *)
(* the value a request model accepted is given to navigate_to_profile.     *)
(* Here request holds the URL and result.value maps each function applied  *)
(* so far to what it returned or raised.                                   *)
(***************************************************************************)
\* the longest path of a URL of the pool, in chunks
MaxPathLen == 4

\* scheme, www prefix, host and path, in either case, with or without the
\* profile path, and with the host of LinkedIn inside the path of another site
ProfileUrlPool ==
    {scheme \o www \o host \o path :
        scheme \in {<<>>, <<"https://">>, <<"HTTPS://">>},
        www \in {<<>>, <<"www.">>, <<"WWW.">>},
        host \in {<<"linkedin.com">>, <<"LinkedIn.com">>, <<"google.com">>,
                  <<"google.com", "/", "linkedin.com">>},
        path \in UNION {[1..n -> {"/", "in", "IN", "bob"}] : n \in 0..MaxPathLen}}

\* a validator that asks for the scheme and the www prefix: what the validator
\* of a request model must not be
validate_full_profile_url(v) ==
    IF ~Contains(<<"https://", "www.", "linkedin.com", "/", "in", "/">>, Lower(v))
    THEN [ret |-> None, exc |-> "ValueError"]
    ELSE [ret |-> v, exc |-> NoExc]

\* @validator('profile_url') of ConnectRequest
ConnectRequest_validate_profile_url(v) ==
    IF ~Contains(<<"linkedin.com", "/", "in", "/">>, Lower(v))
    THEN [ret |-> None, exc |-> "ValueError"]
    ELSE [ret |-> v, exc |-> NoExc]

\* @validator('profile_url') of CheckConnectionRequest
CheckConnectionRequest_validate_profile_url(v) ==
    IF ~Contains(<<"linkedin.com", "/", "in", "/">>, Lower(v))
    THEN [ret |-> None, exc |-> "ValueError"]
    ELSE [ret |-> v, exc |-> NoExc]

RequestModels == {"ConnectRequest", "CheckConnectionRequest"}

InitUrl ==
    /\ driver = 1
    /\ session_id = 1
    /\ is_logged_in = TRUE
    /\ current_url = FeedUrl
    /\ handlers = {"linkedin_auth", "profile_handler", "message_handler"}
    /\ alive = TRUE
    /\ liveUrl = FeedUrl
    /\ page = GlobalNav
    /\ launched = 1
    /\ request \in {[op |-> "profile_url", profile_url |-> u] : u \in ProfileUrlPool}
    /\ result = [value |-> <<>>, exc |-> NoExc]
    /\ calls = <<>>

\* the function named by key returned or raised out
Record(key, out) ==
    /\ key \notin DOMAIN result.value
    /\ result' = [result EXCEPT !.value = (key :> out) @@ result.value]

\* ConnectRequest(profile_url=...)
ValidateConnect ==
    /\ Record("ConnectRequest", ConnectRequest_validate_profile_url(request.profile_url))
    /\ UNCHANGED <<driver, session_id, is_logged_in, current_url, handlers, alive,
                   liveUrl, page, launched, request, calls>>

\* CheckConnectionRequest(profile_url=..., message=...)
ValidateCheckConnection ==
    /\ Record("CheckConnectionRequest",
              CheckConnectionRequest_validate_profile_url(request.profile_url))
    /\ UNCHANGED <<driver, session_id, is_logged_in, current_url, handlers, alive,
                   liveUrl, page, launched, request, calls>>

\* profile_handler._is_valid_linkedin_profile_url(profile_url)
CoreValidate ==
    /\ Record("_is_valid_linkedin_profile_url",
              [ret |-> _is_valid_linkedin_profile_url(request.profile_url),
               exc |-> NoExc])
    /\ UNCHANGED <<driver, session_id, is_logged_in, current_url, handlers, alive,
                   liveUrl, page, launched, request, calls>>

\* profile_handler.navigate_to_profile(request.profile_url), of a request that a
\* request model accepted, on a site that shows a profile
NavigateAccepted ==
    /\ \E m \in RequestModels \cap DOMAIN result.value :
          /\ result.value[m].exc = NoExc
          /\ \E r \in {navigate_to_profile(
                           World({Screen({Load}, ProfileHeader, Same)}, NoFault),
                           result.value[m].ret)} :
                /\ Record("navigate_to_profile", [ret |-> r.ret, exc |-> r.exc])
                /\ current_url' = r.w.current_url
                /\ liveUrl' = r.w.liveUrl
                /\ page' = r.w.page
                /\ calls' = r.w.calls
    /\ UNCHANGED <<driver, session_id, is_logged_in, handlers, alive, launched, request>>

NextUrl ==
    \/ ValidateConnect
    \/ ValidateCheckConnection
    \/ CoreValidate
    \/ NavigateAccepted

SpecUrl == InitUrl /\ [][NextUrl]_vars

----------------------------------------------------------------------------
(***************************************************************************)
(* The primitives of the BrowserManager called directly: smart_click,      *)
(* smart_type, navigate_to and get_current_url, on a session without       *)
(* browser, with a live one or with a dead one, the browser dying before   *)
(* any one of the driver calls of the primitive or its element being       *)
(* inert.  Here request also holds the last-known location and the page    *)
(* at the time of the call.                                                *)
(***************************************************************************)
\* the latest driver call of a primitive before which the browser may die
MaxStepAt == 4

PrimitiveFaults ==
    {NoFault} \cup {[kind |-> "crash", at |-> n] : n \in 0..MaxStepAt}
              \cup {[kind |-> "inert", at |-> 0]}

\* a locator of the login form, one of the navigation bar and one of a profile
PrimitiveLocators ==
    {login_selectors.email_input[1], login_selectors.login_button[1],
     nav_selectors[1], connect_selectors.primary_connect[1]}

PrimitiveTexts == {<<>>, <<"a", "b">>}

\* what the site answers to a load (nothing, the login form, or the login form
\* after a redirection) and to the submit click
PrimitiveSites ==
    {{Screen(SubmitButton, GlobalNav, FeedUrl)} \cup loads :
        loads \in {{}, {Screen({Load}, LoginForm, Same)},
                   {Screen({Load}, LoginForm, LoginRedirectUrl)}}}

\* the call as the properties see it
PrimitiveRequest(op, locator, arg, fault) ==
    [op |-> op, locator |-> locator, arg |-> arg, fault |-> fault,
     was |-> current_url, shown |-> page, at |-> liveUrl, up |-> BrowserUp]

InitPrimitives ==
    /\ \/ /\ driver = 0 /\ session_id = 0 /\ launched = 0 /\ alive = FALSE
          /\ current_url = NoUrl /\ liveUrl = BlankUrl /\ page = {}
       \/ /\ driver = 1 /\ session_id = 1 /\ launched = 1 /\ alive \in BOOLEAN
          /\ \/ current_url = NoUrl /\ liveUrl = BlankUrl /\ page = {}
             \/ current_url = LINKEDIN_LOGIN_URL /\ liveUrl = LINKEDIN_LOGIN_URL
                                                 /\ page = LoginForm
             \/ current_url = FeedUrl /\ liveUrl = LoginRedirectUrl /\ page = LoginForm
    /\ is_logged_in = FALSE
    /\ handlers = {}
    /\ request = Idle
    /\ result = [value |-> None, exc |-> NoExc]
    /\ calls = <<>>

\* browser_manager.smart_click(locator, timeout)
SmartClick ==
    /\ request = Idle
    /\ \E locator \in PrimitiveLocators, timeout \in {5, 10}, fault \in PrimitiveFaults,
          site \in PrimitiveSites :
          \E r \in {smart_click(World(site, fault), locator, timeout)} :
              Apply(PrimitiveRequest("smart_click", locator, <<>>, fault), r)

\* browser_manager.smart_type(locator, text, timeout)
SmartType ==
    /\ request = Idle
    /\ \E locator \in PrimitiveLocators, text \in PrimitiveTexts, timeout \in {5, 10},
          fault \in PrimitiveFaults :
          \E r \in {smart_type(World({}, fault), locator, text, timeout)} :
              Apply(PrimitiveRequest("smart_type", locator, text, fault), r)

\* browser_manager.navigate_to(url)
NavigateTo ==
    /\ request = Idle
    /\ \E url \in {LINKEDIN_LOGIN_URL, FeedUrl, ProfileBob}, fault \in PrimitiveFaults,
          site \in PrimitiveSites :
          \E r \in {navigate_to(World(site, fault), url)} :
              Apply(PrimitiveRequest("navigate_to", "", url, fault), r)

\* browser_manager.get_current_url()
GetCurrentUrl ==
    /\ request = Idle
    /\ \E fault \in PrimitiveFaults :
          \E r \in {get_current_url(World({}, fault))} :
              Apply(PrimitiveRequest("get_current_url", "", <<>>, fault), r)

\* browser_manager.close_browser()
CloseBrowser ==
    /\ request = Idle
    /\ \E fault \in {NoFault, [kind |-> "quit", at |-> 0]} :
          \E r \in {close_browser(World({}, fault))} :
              Apply(PrimitiveRequest("close_browser", "", <<>>, fault), r)

NextPrimitives ==
    \/ SmartClick
    \/ SmartType
    \/ NavigateTo
    \/ GetCurrentUrl
    \/ CloseBrowser
    \/ Deliver
    \/ BrowserDies

SpecPrimitives == InitPrimitives /\ [][NextPrimitives]_vars

----------------------------------------------------------------------------
(***************************************************************************)
(* The steps of send_connection_request on a profile that is shown: the    *)
(* Connect button, directly or through the overflow menu, the note, the    *)
(* Send button.  The overflow menu holds a Connect option or not, the      *)
(* invitation dialog holds a note field and a Send button or not, and a    *)
(* fault meets a chosen step: the browser dies before one of the driver    *)
(* calls of the step, or the element the step clicks or types into is      *)
(* inert.  Here request also holds the page and the site of the call, the  *)
(* step the fault meets, and the outcome of the same call had its note     *)
(* step succeeded.                                                         *)
(***************************************************************************)
\* the latest driver call of the connect step before which the browser may die
MaxConnectAt == 17
\* the latest click of the connect step that may meet an inert element
MaxConnectInert == 2

\* what a click on the overflow toggle adds to the page
Menus == {ConnectOption, {}}

\* what a click on a Connect control shows
Dialogs == {Page(d) : d \in SUBSET {NoteField, InviteSend}}

InvitePages == {Page({ProfileHeader} \cup a) : a \in SUBSET {ConnectButton, MoreButton}}

DialogSite(shown, menu, dialog) ==
    {Screen(MoreButton, shown \cup menu, Same),
     Screen(ConnectButton \cup ConnectOption, dialog, Same)}

\* the number of driver calls of the log l made before the first one on a
\* candidate of selectors; -1 when there is none
StepStart(l, selectors) ==
    IF \E i \in 1..Len(l) : l[i].loc \in Range(selectors)
    THEN (CHOOSE i \in 1..Len(l) :
             /\ l[i].loc \in Range(selectors)
             /\ \A j \in 1..(i - 1) : l[j].loc \notin Range(selectors)) - 1
    ELSE -1

\* the clicks and typings that reach their element within the first n calls of l
FindsBefore(l, n) == Cardinality({i \in 1..n : l[i].op = "find"})

\* the faults that meet the step of the run l which resolves selectors and lasts
\* until its call number last: the browser dies before one of its calls, or the
\* element it clicks or types into is inert
StepFaults(l, selectors, last, step) ==
    IF StepStart(l, selectors) < 0 THEN {}
    ELSE {[kind |-> "crash", at |-> n, step |-> step] :
             n \in StepStart(l, selectors)..(last - 1)}
         \cup {[kind |-> "inert", at |-> FindsBefore(l, StepStart(l, selectors)),
                step |-> step] :
                    i \in {j \in (StepStart(l, selectors) + 1)..last : l[j].op = "find"}}

\* the faults of a call whose run without fault made the driver calls l
InviteFaults(l) ==
    {[kind |-> "none", at |-> 0, step |-> "none"]}
    \cup StepFaults(l, note_selectors, StepStart(l, send_selectors), "note")
    \cup StepFaults(l, send_selectors, Len(l), "confirm")

\* success and error_type of the outcome d
Kind(d) == [success |-> d.success,
            error_type |-> IF d.success THEN None ELSE d.error_type]

\* the outcome of send_connection_request(profile_url, note) had the note step
\* succeeded: the dialog holds the note field, no element is inert, and a
\* browser that died in the note step dies once the note is typed
NoteSucceeded(shown, menu, dialog, fault, profile_url, note) ==
    Bind(send_connection_request(
             World(DialogSite(shown, menu, dialog \cup NoteField), NoFault),
             profile_url, note), LAMBDA typed :
        IF fault.kind # "crash" THEN Kind(typed.ret)
        ELSE Kind(send_connection_request(
                      World(DialogSite(shown, menu, dialog \cup NoteField),
                            [kind |-> "crash",
                             at |-> StepStart(typed.w.calls, send_selectors)]),
                      profile_url, note).ret))

\* the call as the properties see it
InviteRequest(op, note, menu, dialog, fault, expected) ==
    [op |-> op, profile_url |-> ProfileBob, note |-> note, fault |-> fault,
     evidence |-> page, menu |-> menu, dialog |-> dialog, up |-> BrowserUp,
     expected |-> expected]

InitInvite ==
    /\ driver = 1
    /\ session_id = 1
    /\ is_logged_in = TRUE
    /\ current_url = ProfileBob
    /\ handlers = {"linkedin_auth", "profile_handler"}
    /\ alive = TRUE
    /\ liveUrl = ProfileBob
    /\ page \in InvitePages
    /\ launched = 1
    /\ request = Idle
    /\ result = [value |-> None, exc |-> NoExc]
    /\ calls = <<>>

\* profile_handler._find_and_click_connect_button(), the connect step alone
ConnectStep ==
    /\ request = Idle
    /\ \E menu \in Menus,
          fault \in {NoFault} \cup {[kind |-> "crash", at |-> n] : n \in 0..MaxConnectAt}
                              \cup {[kind |-> "inert", at |-> n] : n \in 0..MaxConnectInert} :
          \E r \in {_find_and_click_connect_button(
                        World(DialogSite(page, menu, Page({NoteField, InviteSend})), fault))} :
              Apply(InviteRequest("_find_and_click_connect_button", NoneText, menu,
                                  Page({NoteField, InviteSend}), fault, None), r)

\* profile_handler.send_connection_request(profile_url, note)
SendInvitation ==
    /\ request = Idle
    /\ \E note \in Notes, menu \in Menus, dialog \in Dialogs :
       \E plain \in {send_connection_request(World(DialogSite(page, menu, dialog), NoFault),
                                             ProfileBob, note)} :
       \E fault \in InviteFaults(plain.w.calls) :
       \E r \in {send_connection_request(
                     World(DialogSite(page, menu, dialog),
                           [kind |-> fault.kind, at |-> fault.at]), ProfileBob, note)} :
       \E expected \in {IF fault.step = "confirm" THEN Kind(r.ret)
                        ELSE NoteSucceeded(page, menu, dialog, fault, ProfileBob, note)} :
           Apply(InviteRequest("send_connection_request", note, menu, dialog, fault,
                               expected), r)

\* the profile is loaded again
Reload ==
    /\ request = Idle
    /\ BrowserUp
    /\ liveUrl' = ProfileBob
    /\ page' \in InvitePages
    /\ UNCHANGED <<driver, session_id, is_logged_in, current_url, handlers, alive,
                   launched, request, result, calls>>

NextInvite ==
    \/ ConnectStep
    \/ SendInvitation
    \/ Reload
    \/ Deliver

SpecInvite == InitInvite /\ [][NextInvite]_vars

----------------------------------------------------------------------------
(***************************************************************************)
(* navigate_to_profile against every URL and every answer of the site: an  *)
(* authenticated browser at any of the starting points of StartPoints, a   *)
(* URL with or without the profile path, a site that answers with a page   *)
(* with or without the profile header, at the location asked for or at the *)
(* authwall, the unavailable page or the feed, and a browser that may die  *)
(* before any of the first driver calls of the operation.                  *)
(***************************************************************************)
MaxNavigateAt == 8

NavigateUrls ==
    {ProfileBob, <<"HTTPS://", "WWW.", "LinkedIn.com", "/", "IN", "/", "bob">>,
     <<"linkedin.com", "/", "in", "/", "bob">>, CompanyUrl, LINKEDIN_BASE_URL, FeedUrl}

\* the profile header, its name heading alone, or no header
Headers == {ProfileHeader, {"xpath://h1[contains(@class, 'text-heading-xlarge')]"}, {}}

NavigateLoads ==
    {Screen({Load}, h, u) :
        h \in Headers, u \in {Same, AuthwallUrl, UnavailableUrl, FeedUrl}}

\* the call as the properties see it: its argument, the fault met, the answer of
\* the site to a load, and the browser as the call found it
NavigateRequest(profile_url, load, fault) ==
    [op |-> "navigate_to_profile", profile_url |-> profile_url, fault |-> fault,
     load |-> load, up |-> BrowserUp, was |-> liveUrl, shown |-> page,
     known |-> current_url]

\* profile_handler.navigate_to_profile(profile_url)
NavigateToProfile ==
    /\ request = Idle
    /\ \E profile_url \in NavigateUrls, load \in NavigateLoads,
          fault \in {NoFault} \cup {[kind |-> "crash", at |-> n] : n \in 0..MaxNavigateAt} :
            \E r \in {navigate_to_profile(World({load}, fault), profile_url)} :
                Apply(NavigateRequest(profile_url, load, fault), r)

NextNavigate ==
    \/ NavigateToProfile
    \/ Deliver

SpecNavigate == InitStatus /\ [][NextNavigate]_vars

----------------------------------------------------------------------------
(***************************************************************************)
(* The two cross-checks on the same evidence: check_connection_status of   *)
(* the ProfileHandler, then can_send_message of the MessageHandler, on a   *)
(* profile page that shows any combination of the locators of CrossPool,   *)
(* the browser being at the profile or on a blank tab and dying before any *)
(* of the first driver calls or not at all.                                *)
(***************************************************************************)
MaxCrossAt == 8

\* every locator of a Message button, a Pending button and a Connect button
CrossPool ==
    Range(message_button_selectors) \cup Range(connection_status_selectors.connected)
        \cup PendingButton
        \cup {"xpath://button[contains(@aria-label, 'Connect')]"}

CrossPages == {ProfileHeader \cup s : s \in SUBSET CrossPool}

InitCross ==
    /\ driver = 1
    /\ session_id = 1
    /\ is_logged_in = TRUE
    /\ current_url = LINKEDIN_LOGIN_URL
    /\ handlers = {"linkedin_auth", "profile_handler", "message_handler"}
    /\ alive = TRUE
    /\ \/ liveUrl = ProfileBob /\ page \in CrossPages
       \/ liveUrl = BlankUrl /\ page = {}
    /\ launched = 1
    /\ request = Idle
    /\ result = [value |-> None, exc |-> NoExc]
    /\ calls = <<>>

\* profile_handler.check_connection_status(profile_url), then
\* message_handler.can_send_message(profile_url); the outcome holds both
CrossCheck ==
    /\ request = Idle
    /\ \E evidence \in CrossPages,
          fault \in {NoFault} \cup {[kind |-> "crash", at |-> n] : n \in 0..MaxCrossAt} :
          /\ Contains(ProfileBob, liveUrl) => evidence = page
          /\ \E status \in {check_connection_status(
                                World({Screen({Load}, evidence, Same)}, fault),
                                ProfileBob)} :
             \E messaging \in {can_send_message(status.w, ProfileBob)} :
                Apply([op |-> "cross_check", profile_url |-> ProfileBob,
                       fault |-> fault, evidence |-> evidence, up |-> BrowserUp],
                      Ret(messaging.w, [status |-> status.ret,
                                        messaging |-> messaging.ret]))

NextCross ==
    \/ CrossCheck
    \/ Deliver

SpecCross == InitCross /\ [][NextCross]_vars

----------------------------------------------------------------------------
(***************************************************************************)
(* send_message against a conversation that may lag: the profiles and the  *)
(* conversations of the MessageHandler section, a browser that may die     *)
(* before any driver call up to the last one of a message sent, a Message  *)
(* button, a composer input or a Send button that may be inert, and a      *)
(* conversation that the browser may render only after some of the probes  *)
(* that follow the click on the Message button.                            *)
(***************************************************************************)
MaxComposeCrash == 28
MaxComposeInert == 3
MaxComposeLag == 6

ComposeFaults ==
    {NoFault} \cup {[kind |-> "crash", at |-> n] : n \in 0..MaxComposeCrash}
              \cup {[kind |-> "inert", at |-> n] : n \in 0..MaxComposeInert}
              \cup {[kind |-> "lag", at |-> n] : n \in 0..MaxComposeLag}

\* message_handler.send_message(profile_url, message)
ComposeMessage ==
    /\ request = Idle
    /\ \E profile_url \in ProfileUrls, message \in MessageTexts,
          profile \in MessageLoads, conversation \in Conversations,
          fault \in ComposeFaults :
          \* a browser at the profile loads nothing: one answer of the site will do
          /\ Contains(profile_url, liveUrl) => profile.page = {}
          /\ \E req \in {MessageRequest("send_message", profile_url, message, profile,
                                        conversation, fault) @@ [up |-> BrowserUp]} :
             \E r \in {send_message(World(MessageSite(profile, req), fault),
                                    profile_url, message)} :
                 Apply(req, r)

NextCompose ==
    \/ ComposeMessage
    \/ Deliver

SpecCompose == InitMessage /\ [][NextCompose]_vars

----------------------------------------------------------------------------
(***************************************************************************)
(* Properties.                                                             *)
(***************************************************************************)
\* the indices of the candidates of selectors present on the page
Hits(selectors) == {i \in 1..Len(selectors) : selectors[i] \in page}
Least(S) == CHOOSE i \in S : \A j \in S : i <= j

\* C1: element resolution probes the candidates of the locator set in list order,
\* one smart_wait each; it probes no candidate after the first one present and
\* returns that one; it returns None if and only if no candidate is present.
C1_ResolutionInOrder ==
    request.op = "resolve" =>
        LET selectors == request.selectors
            hits == Hits(selectors)
        IN  /\ Len(calls) <= Len(selectors)
            /\ \A i \in 1..Len(calls) :
                  /\ calls[i].op = "probe"
                  /\ calls[i].loc = selectors[i]
                  /\ \A j \in 1..(i - 1) : selectors[j] \notin page
            /\ result.exc = NoExc =>
                  /\ result.value = None <=> hits = {}
                  /\ hits # {} =>
                        /\ result.value = selectors[Least(hits)]
                        /\ Len(calls) = Least(hits)
                  /\ hits = {} => Len(calls) = Len(selectors)

\* a resolution that passed absent candidates, found one present and left later
\* present candidates unprobed
C1_Witness ==
    /\ request.op = "resolve"
    /\ result.exc = NoExc
    /\ Cardinality(Hits(request.selectors)) >= 2
    /\ Least(Hits(request.selectors)) >= 2
    /\ result.value = request.selectors[Least(Hits(request.selectors))]
    /\ Len(calls) < Len(request.selectors)

\* C2: is_logged_in goes from false to true only in a login whose validation step
\* reported success; launch, navigation, status check, connect, check_connection,
\* session info, logout and close never set it.
C2_FlagSetOnlyByValidatedLogin ==
    [][(~is_logged_in /\ is_logged_in') =>
          /\ request'.op = "login"
          /\ result'.value.body.success
          /\ \E i \in 1..Len(calls') :
                /\ calls'[i].op = "probe"
                /\ calls'[i].loc \in Range(login_selectors.error_messages)]_vars

\* a login that set the flag
C2_Witness ==
    /\ request.op = "login"
    /\ is_logged_in
    /\ result.value.body.success
    /\ result.value.body.message = "Login successful"

\* the browser answers the activity check of the request being served
ActiveAtCall(req) ==
    driver # 0 /\ alive /\ ~(req.fault.kind = "crash" /\ req.fault.at = 0)

\* C3: connect and check_connection run no step of the ProfileHandler or of the
\* MessageHandler unless the browser is active and is_logged_in is true when they
\* are called; otherwise they are rejected (400 no_session, 401 not_authenticated)
\* after the activity check alone, and the session is left as it was.
C3_GuardedControllers ==
    [][(request'.op \in {"connect", "check_connection"}
        /\ ~(ActiveAtCall(request') /\ is_logged_in)) =>
          /\ result'.value.http = IF ActiveAtCall(request') THEN 401 ELSE 400
          /\ result'.value.body.error_type =
                IF ActiveAtCall(request') THEN "not_authenticated" ELSE "no_session"
          /\ ~result'.value.body.success
          /\ \A i \in 1..Len(calls') : i = 1 /\ calls'[i].op = "current_url"
          /\ UNCHANGED <<driver, session_id, is_logged_in, current_url, handlers,
                         liveUrl, page>>]_vars

\* a connect rejected for want of authentication on a live browser, and one
\* rejected for want of a browser
C3_Witness ==
    /\ request.op \in {"connect", "check_connection"}
    /\ result.value.http = 401
    /\ driver # 0 /\ alive /\ ~is_logged_in
    /\ Len(calls) = 1

\* the login form was submitted: the log of driver calls l holds the submit click
Submitted(l) ==
    \E i \in 1..Len(l) : l[i].op = "click" /\ l[i].loc \in Range(login_selectors.login_button)

Resolvable(selectors, p) == Range(selectors) \cap p # {}

OnLoginPath(url) == Contains(<<"/", "login">>, url) \/ Contains(<<"/", "challenge">>, url)

\* the outcome of rules (a) to (f) on the page p at the location url
Outcome(p, url) ==
    IF Resolvable(login_selectors.captcha_challenge, p) THEN "captcha_challenge"
    ELSE IF Resolvable(login_selectors.error_messages, p) THEN "authentication_error"
    ELSE IF AnyIn(success_indicators, url) THEN "success"
    ELSE IF Resolvable(nav_selectors, p) THEN "success"
    ELSE IF OnLoginPath(url) THEN "authentication_error"
    ELSE "success"

\* C4: after the submit, LinkedInAuth.login ends as the first rule that matches
\* says: (a) challenge surface: captcha_challenge; (b) inline error:
\* authentication_error; (c) landing indicator in the location: success; (d)
\* navigation chrome: success; (e) login or challenge path in the location:
\* authentication_error; (f) success.  It sets is_logged_in to true when the outcome
\* is success and leaves it alone otherwise.
C4_OutcomeByFirstMatchingRule ==
    [][(request'.op = "auth_login" /\ Submitted(calls') /\ alive') =>
          /\ result'.exc = NoExc
          /\ result'.value.success = (Outcome(page', liveUrl') = "success")
          /\ ~result'.value.success => result'.value.error_type = Outcome(page', liveUrl')
          /\ is_logged_in' = (is_logged_in \/ result'.value.success)]_vars

\* success by rule (d): chrome present at a location that is no landing indicator,
\* no challenge, no inline error; the flag is set
C4_Witness ==
    /\ request.op = "auth_login"
    /\ Submitted(calls)
    /\ alive
    /\ Resolvable(nav_selectors, page)
    /\ ~AnyIn(success_indicators, liveUrl)
    /\ result.value.success
    /\ result.value.message = "Login successful - navigation found"
    /\ is_logged_in

\* C5: when the location after the submit is on the login or challenge path, login
\* does not end with success, whatever landing indicator the location holds and
\* whatever navigation chrome is resolvable.
C5_NoSuccessOnLoginPath ==
    (request.op = "auth_login" /\ Submitted(calls) /\ alive /\ OnLoginPath(liveUrl)) =>
        ~result.value.success

\* the number of the driver calls op of the log l
CountOf(l, op) == Cardinality({i \in 1..Len(l) : l[i].op = op})

\* C6: when a challenge surface is resolvable after the submit, LinkedInAuth.login
\* returns success false, error_type captcha_challenge and requires_manual_action
\* true, whatever inline error, location and navigation chrome come with it; it
\* loads the login page, fills each field and clicks the submit button once, and
\* leaves is_logged_in as it was.
C6_CaptchaIsFinal ==
    [][(request'.op = "auth_login" /\ Submitted(calls') /\ alive'
        /\ Resolvable(login_selectors.captcha_challenge, page')) =>
          /\ result'.exc = NoExc
          /\ ~result'.value.success
          /\ result'.value.error_type = "captcha_challenge"
          /\ "requires_manual_action" \in DOMAIN result'.value
          /\ result'.value.requires_manual_action
          /\ CountOf(calls', "get") = 1
          /\ CountOf(calls', "clear") = 2
          /\ CountOf(calls', "click") = 1
          /\ is_logged_in' = is_logged_in]_vars

\* a challenge surface together with an inline error and navigation chrome at the
\* feed: the login ends as a challenge
C6_Witness ==
    /\ request.op = "auth_login"
    /\ Submitted(calls)
    /\ alive
    /\ Resolvable(login_selectors.captcha_challenge, page)
    /\ Resolvable(login_selectors.error_messages, page)
    /\ Resolvable(nav_selectors, page)
    /\ liveUrl = FeedUrl
    /\ result.value.error_type = "captcha_challenge"
    /\ ~is_logged_in

\* C7: when the Authentication Controller reports a challenge surface, the response
\* of POST /login has success false, error_type captcha_challenge and
\* requires_manual_action true.
C7_EndpointKeepsCaptchaOutcome ==
    (request.op = "login" /\ Submitted(calls) /\ alive
     /\ Resolvable(login_selectors.captcha_challenge, page)) =>
        /\ ~result.value.body.success
        /\ result.value.body.error_type = "captcha_challenge"
        /\ "requires_manual_action" \in DOMAIN result.value.body
        /\ result.value.body.requires_manual_action

\* the operation op was called on a live browser that answered every call
Answered(op) == request.op = op /\ request.fault.kind # "crash" /\ alive

\* the classification is reached: the browser was at a location holding
\* profile_url, or the page loaded for it shows a profile indicator
Classified == request.at_profile \/ Resolvable(profile_indicators, request.evidence)

HasConnected == Resolvable(connection_status_selectors.connected, request.evidence)
HasPending == Resolvable(connection_status_selectors.pending, request.evidence)
HasFollow == Resolvable(connection_status_selectors.follow, request.evidence)
HasConnect == Resolvable(connect_selectors.primary_connect, request.evidence)
HasOverflow == Resolvable(connect_selectors.dropdown_connect, request.evidence)

\* C8, as claimed: with the Connected affordance on the page the driver reports,
\* check_connection_status yields connected from every starting location.
C8_ConnectedFromAnywhere ==
    (Answered("check_connection_status") /\ HasConnected) =>
        /\ result.value.success
        /\ result.value.connection_status = "connected"

\* C8, amended: with the Connected affordance on the page, check_connection_status
\* yields connected whatever other affordances are there, when the browser is at
\* the profile already or the page loaded for it passes as a profile page.
C8_ConnectedWhenClassified ==
    (Answered("check_connection_status") /\ Classified /\ HasConnected) =>
        /\ result.value.success
        /\ result.value.connection_status = "connected"

\* connected, reached by navigation, on a page that shows every other affordance too
C8_Witness ==
    /\ Answered("check_connection_status")
    /\ ~request.at_profile
    /\ HasConnected /\ HasPending /\ HasFollow /\ HasConnect /\ HasOverflow
    /\ result.value.success
    /\ result.value.connection_status = "connected"

\* C9, as claimed: pending iff Pending without Connected; not_connected iff Follow
\* or Connect without those two; unknown whenever none of the four is resolvable.
C9_FourAffordances ==
    (Answered("check_connection_status") /\ result.value.success) =>
        /\ result.value.connection_status = "pending" <=> (~HasConnected /\ HasPending)
        /\ result.value.connection_status = "not_connected" <=>
              (~HasConnected /\ ~HasPending /\ (HasFollow \/ HasConnect))
        /\ (~HasConnected /\ ~HasPending /\ ~HasFollow /\ ~HasConnect) =>
              result.value.connection_status = "unknown"

\* the status that the page shown stands for, the overflow toggle counted as a way
\* to connect
StatusOfEvidence ==
    IF HasConnected THEN "connected"
    ELSE IF HasPending THEN "pending"
    ELSE IF HasFollow \/ HasConnect \/ HasOverflow THEN "not_connected"
    ELSE "unknown"

\* C9, amended: pending iff Pending without Connected; not_connected iff Follow,
\* Connect or the overflow toggle without those two; unknown iff none of the five
\* is resolvable; each of them, unknown too, with success true.
C9_FiveAffordances ==
    (Answered("check_connection_status") /\ Classified) =>
        /\ result.value.success
        /\ result.value.connection_status = StatusOfEvidence

\* a page whose only affordance is the overflow toggle: not_connected
C9_Witness ==
    /\ Answered("check_connection_status")
    /\ Classified
    /\ ~HasConnected /\ ~HasPending /\ ~HasFollow /\ ~HasConnect /\ HasOverflow
    /\ result.value.success
    /\ result.value.connection_status = "not_connected"

\* C10: send_connection_request on a profile that classifies as connected (as
\* pending) returns success false and already_connected (request_pending), and
\* makes no click, no clear and no send_keys call on the driver.
C10_NoClickWhenConnectedOrPending ==
    (Answered("send_connection_request") /\ Classified /\ (HasConnected \/ HasPending)) =>
        /\ ~result.value.success
        /\ result.value.error_type =
              IF HasConnected THEN "already_connected" ELSE "request_pending"
        /\ result.value.connection_status = IF HasConnected THEN "connected" ELSE "pending"
        /\ CountOf(calls, "click") = 0
        /\ CountOf(calls, "clear") = 0
        /\ CountOf(calls, "send_keys") = 0

\* a pending profile that shows a Connect button too, reached by navigation
C10_Witness ==
    /\ Answered("send_connection_request")
    /\ ~request.at_profile
    /\ Classified
    /\ ~HasConnected /\ HasPending /\ HasConnect
    /\ result.value.error_type = "request_pending"
    /\ CountOf(calls, "click") = 0

\* the page the capability check is given shows a Message button
HasMessageButton == Resolvable(message_button_selectors, request.evidence)

\* C11: send_message on a profile whose page shows no Message button makes no
\* click, no clear and no send_keys call on the driver and returns success false;
\* when the browser answered every call the error_type is not_connected, and
\* not_connected is returned in no other case.
C11_NotConnectedTouchesNothing ==
    request.op = "send_message" =>
        /\ ~HasMessageButton =>
              /\ ~result.value.success
              /\ CountOf(calls, "click") = 0
              /\ CountOf(calls, "clear") = 0
              /\ CountOf(calls, "send_keys") = 0
              /\ Answered("send_message") => result.value.error_type = "not_connected"
        /\ (~result.value.success /\ result.value.error_type = "not_connected") =>
              ~HasMessageButton

\* a profile without Message button reached by navigation, whose conversation
\* would have shown a composer
C11_Witness ==
    /\ Answered("send_message")
    /\ ~request.at_profile
    /\ ~HasMessageButton
    /\ Resolvable(profile_indicators, request.evidence)
    /\ Resolvable(message_compose_selectors.message_input, request.conversation)
    /\ Len(request.message) > 0
    /\ result.value.error_type = "not_connected"
    /\ CountOf(calls, "get") = 1
    /\ CountOf(calls, "probe") = Len(message_button_selectors)

\* the response of GET /close is success true, and no exception left the endpoint
ClosedWell(r) == r.exc = NoExc /\ r.value.http = 200 /\ r.value.body.success

\* C12: in every reachable session state (never opened, open, authenticated,
\* browser dead, left by a failed operation, driver.quit() raising or not)
\* close_session returns success true and raises nothing, and so does the
\* close_session called next, on the session the first one left.
C12_CloseTwiceSucceeds ==
    request.op = "close_session" =>
        /\ ClosedWell(result)
        /\ \A fault \in {NoFault, [kind |-> "quit", at |-> 0]} :
              \E second \in {close_session(World({}, fault))} :
                  ClosedWell([value |-> second.ret, exc |-> second.exc])

\* a close of a dead browser, authenticated, whose quit raised: the handle is
\* still there for the second close
C12_Witness ==
    /\ request.op = "close_session"
    /\ request.handle
    /\ request.fault.kind = "quit"
    /\ driver # 0 /\ ~alive /\ is_logged_in
    /\ ClosedWell(result)

\* C13, as claimed: after close_session, from any state in which a browser handle
\* exists, driver is None, session_id is None and is_logged_in is false; on a
\* session without a handle it changes nothing and raises nothing.
C13_CloseClearsSession ==
    [][request'.op = "close_session" =>
          /\ result'.exc = NoExc
          /\ IF driver # 0
             THEN driver' = 0 /\ session_id' = 0 /\ ~is_logged_in'
             ELSE UNCHANGED <<driver, session_id, is_logged_in, current_url, alive,
                              liveUrl, page>>]_vars

\* the page once the Message button is clicked
Shown == request.evidence \cup request.conversation

\* the first candidate of selectors present on the page p
FirstOf(selectors, p) ==
    selectors[Least({i \in 1..Len(selectors) : selectors[i] \in p})]

\* the positions of the calls of the operations ops in the log l
CallsOf(l, ops) == {i \in 1..Len(l) : l[i].op \in ops}

\* the Message button, the thread, the composer input and the Send button are there
ComposerPresent ==
    /\ HasMessageButton
    /\ Resolvable(message_compose_selectors.message_thread, Shown)
    /\ Resolvable(message_compose_selectors.message_input, Shown)
    /\ Resolvable(message_compose_selectors.send_button, Shown)

\* C14: with the Message button and the composer present and no fault,
\* send_message succeeds; a send_message that succeeds with a text of length n
\* made exactly one clear, then exactly n send_keys calls, the k-th one with the
\* k-th character of the text alone, all on the first present candidate of
\* message_input, and after the last of them exactly one click, on the first
\* present candidate of send_button.
C14_OneClearThenEachCharacterThenSend ==
    request.op = "send_message" =>
        /\ (ComposerPresent /\ Answered("send_message") /\ request.fault.kind = "none")
              => result.value.success
        /\ result.value.success =>
              LET input == FirstOf(message_compose_selectors.message_input, Shown)
                  send == FirstOf(message_compose_selectors.send_button, Shown)
                  clears == CallsOf(calls, {"clear"})
                  inserts == CallsOf(calls, {"send_keys"})
                  typing == clears \cup inserts
              IN  /\ ComposerPresent
                  /\ Cardinality(clears) = 1
                  /\ Cardinality(inserts) = Len(request.message)
                  /\ \A i \in typing : calls[i].loc = input
                  /\ \A c \in clears, i \in inserts : c < i
                  /\ \A i \in inserts :
                        calls[i].arg =
                            <<request.message[Cardinality({k \in inserts : k <= i})]>>
                  /\ \E s \in CallsOf(calls, {"click"}) :
                        /\ calls[s].loc = send
                        /\ \A t \in typing : t < s
                        /\ \A o \in CallsOf(calls, {"click"}) :
                              (\E t \in typing : t < o) => o = s

\* a text of four characters with a repeated one, typed into a composer that
\* only the fourth candidate of message_input matches, on a profile reached by
\* navigation
C14_Witness ==
    /\ Answered("send_message")
    /\ result.value.success
    /\ ~request.at_profile
    /\ request.message = <<"a", "b", "a", "b">>
    /\ FirstOf(message_compose_selectors.message_input, Shown) = "css:div[role='textbox']"
    /\ Cardinality(CallsOf(calls, {"send_keys"})) = 4
    /\ Cardinality(CallsOf(calls, {"click"})) = 3

\* the public operations of the three controllers
ControllerOps ==
    {"login", "logout", "is_logged_in", "navigate_to_profile",
     "check_connection_status", "send_connection_request", "can_send_message",
     "send_message", "close_message_interface"}

\* C15: whatever the session (no browser, a live one, a dead one) and whichever
\* driver call the browser dies at or whichever click or typing meets an inert
\* element, each public operation of the controllers returns a value, a bool for
\* is_logged_in and a dict with a boolean success for the others, and no
\* exception leaves it.
C15_ControllersReturnOutcomes ==
    request.op \in ControllerOps =>
        /\ result.exc = NoExc
        /\ IF request.op = "is_logged_in" THEN result.value \in BOOLEAN
           ELSE /\ "success" \in DOMAIN result.value
                /\ result.value.success \in BOOLEAN

\* a send_message whose browser died between two characters of the text
C15_Witness ==
    /\ request.op = "send_message"
    /\ request.fault.kind = "crash"
    /\ ~alive
    /\ CountOf(calls, "send_keys") = 2
    /\ result.exc = NoExc
    /\ ~result.value.success
    /\ result.value.error_type = "typing_error"

\* C16, as claimed: every outcome with success false of login, logout,
\* navigate_to_profile, check_connection_status, send_connection_request,
\* can_send_message and send_message holds the keys error and error_type.
C16_FailuresCarryTextAndKind ==
    (/\ request.op \in ControllerOps \ {"is_logged_in", "close_message_interface"}
     /\ ~result.value.success) =>
        HasKeys(result.value, {"error", "error_type"})

\* send_message was invoked: its capability check, and nothing else, probes the
\* candidates of message_button_selectors with a timeout of 5
MessageAttempted ==
    \E i \in 1..Len(calls) :
        /\ calls[i].op = "probe"
        /\ calls[i].timeout = 5
        /\ calls[i].loc \in Range(message_button_selectors)

\* C17: check_connection invokes send_message only when the status check of that
\* same call succeeded with connected, which the response then reports; when the
\* status is pending, not_connected or unknown, or the status check failed, or the
\* call was rejected, the response has success false and message_sent not true and
\* the call made no click, no clear and no send_keys on the driver.
C17_MessageOnlyWhenConnected ==
    request.op = "check_connection" =>
        /\ result.exc = NoExc
        /\ MessageAttempted =>
              /\ Classified /\ HasConnected
              /\ result.value.body.connection_status = "connected"
        /\ ~(Classified /\ HasConnected) =>
              /\ ~result.value.body.success
              /\ GetOrNone(result.value.body, "message_sent") # PyTrue
              /\ CountOf(calls, "click") = 0
              /\ CountOf(calls, "clear") = 0
              /\ CountOf(calls, "send_keys") = 0
        /\ (Answered("check_connection") /\ Classified /\ ~HasConnected) =>
              /\ result.value.body.connection_status = StatusOfEvidence
              /\ result.value.body.error_type = "not_connected"
        /\ (Answered("check_connection") /\ ~Classified) =>
              /\ result.value.body.connection_status = "unknown"
              /\ result.value.body.error_type # "not_connected"
        /\ result.value.body.success =>
              /\ MessageAttempted
              /\ result.value.body.message_sent = PyTrue

\* a pending profile reached by navigation: the status is reported and no step
\* of send_message is made
C17_Witness ==
    /\ Answered("check_connection")
    /\ ~request.at_profile
    /\ Classified /\ ~HasConnected /\ HasPending
    /\ result.value.body.connection_status = "pending"
    /\ result.value.body.message_sent = PyFalse
    /\ ~MessageAttempted
    /\ CountOf(calls, "probe") > 0

\* the tasks in the state s
TasksIn(s) == {t \in DOMAIN request : request[t].state = s}

\* the positions of the driver calls of the task t in the log
CallsBy(t) == {i \in 1..Len(calls) : calls[i].task = t}

\* C18: of the requests (login, connect, check_connection, close_session,
\* get_session_info) in flight together, at most one is running at any time; the
\* driver calls of a task are contiguous in the log of all driver calls; and
\* when a task starts, every task that made a driver call has returned, so that
\* each operation runs to completion before the next starts.
C18_OneOperationAtATime ==
    /\ Cardinality(TasksIn("running")) <= 1
    /\ \A j \in 2..Len(calls) :
          calls[j].task # calls[j - 1].task =>
              \A i \in 1..(j - 1) : calls[i].task # calls[j].task
    /\ \A t \in TasksIn("pending") : CallsBy(t) = {}
    /\ \A t \in TasksIn("running") : \A u \in DOMAIN request \ {t} :
          CallsBy(u) # {} => request[u].state = "done"

\* three requests in flight: one returned after its driver calls, one in the
\* middle of its own, one still waiting for the loop
C18_Witness ==
    /\ Cardinality(DOMAIN request) = 3
    /\ \E t \in TasksIn("done") : CallsBy(t) # {}
    /\ \E t \in TasksIn("running") :
          /\ request[t].pos > 0
          /\ request[t].pos < Len(request[t].run.w.calls)
    /\ TasksIn("pending") # {}

\* the operation has returned, and its outcome is not yet delivered
Returned == request # Idle /\ ~Running

\* C19: each of login, check_connection_status, send_connection_request,
\* can_send_message and send_message, once called, eventually returns, whenever
\* (and if ever) the site shows the elements waited for, with or without the
\* browser dying or an element being inert: a wait makes at most
\* POLLS_PER_SECOND * timeout polls that find nothing, and the run is a finite
\* sequence of driver calls, none of them made again.
C19_EveryOperationReturns == Running ~> Returned

\* a send_message past its twentieth driver call, in a wait of ten seconds
\* whose last poll is made
C19_Witness ==
    /\ Running
    /\ request.op = "send_message"
    /\ request.pos > 20
    /\ request.pos < Len(request.run.w.calls)
    /\ Current.op = "probe"
    /\ Current.timeout = 10
    /\ request.polls = POLLS_PER_SECOND * Current.timeout

\* C20, as claimed: smart_wait returns True or False and raises nothing, whether
\* the element is there, is absent until the timeout, the browser is dead or
\* there is no browser.
C20_WaitReturnsBoolean ==
    request.op = "smart_wait" =>
        /\ result.exc = NoExc
        /\ result.value \in {PyTrue, PyFalse}

\* C21: can_send_message raises nothing; when it succeeds, can_message is true
\* exactly when the page it probed shows a Message button, so a page without one
\* gives success true with can_message false; it fails only with navigation_error
\* or messaging_check_error, and only when the browser stopped answering.
C21_CanMessageIffButton ==
    request.op = "can_send_message" =>
        /\ result.exc = NoExc
        /\ result.value.success =>
              /\ result.value.can_message = HasMessageButton
              /\ result.value.profile_url = request.profile_url
        /\ ~result.value.success =>
              /\ result.value.error_type \in {"navigation_error", "messaging_check_error"}
              /\ ~alive
        /\ Answered("can_send_message") => result.value.success

\* a profile without Message button reached by navigation: success, can_message false
C21_Witness ==
    /\ Answered("can_send_message")
    /\ ~request.at_profile
    /\ ~HasMessageButton
    /\ Resolvable(profile_indicators, request.evidence)
    /\ result.value.success
    /\ ~result.value.can_message
    /\ CountOf(calls, "get") = 1
    /\ CountOf(calls, "probe") = Len(message_button_selectors)

\* the URL holds the profile-path marker, whatever the case of its letters
HasMarker(url) ==
    \E i \in 1..Len(url) - 3 :
        /\ url[i] \in {"linkedin.com", "LinkedIn.com"}
        /\ url[i + 1] = "/"
        /\ url[i + 2] \in {"in", "IN"}
        /\ url[i + 3] = "/"

\* C22: the validator of ConnectRequest, the validator of CheckConnectionRequest
\* and _is_valid_linkedin_profile_url each accept a URL exactly when it holds
\* linkedin.com/in/ in any case; a request model hands the URL on unchanged, and
\* navigate_to_profile never answers invalid_url to a URL a request model accepted.
C22_BoundaryAndCoreAgree ==
    request.op = "profile_url" =>
        /\ \A m \in RequestModels \cap DOMAIN result.value :
              /\ (result.value[m].exc = NoExc) = HasMarker(request.profile_url)
              /\ result.value[m].exc = NoExc => result.value[m].ret = request.profile_url
              /\ result.value[m].exc # NoExc => result.value[m].exc = "ValueError"
        /\ "_is_valid_linkedin_profile_url" \in DOMAIN result.value =>
              result.value["_is_valid_linkedin_profile_url"].ret
                  = HasMarker(request.profile_url)
        /\ "navigate_to_profile" \in DOMAIN result.value =>
              /\ result.value["navigate_to_profile"].exc = NoExc
              /\ result.value["navigate_to_profile"].ret.success
              /\ CountOf(calls, "get") = 1

\* a URL in capitals and without scheme, accepted by both request models and by
\* the core, and loaded by navigate_to_profile
C22_Witness ==
    /\ request.op = "profile_url"
    /\ request.profile_url = <<"LinkedIn.com", "/", "IN", "/", "bob">>
    /\ DOMAIN result.value = RequestModels
                             \cup {"_is_valid_linkedin_profile_url", "navigate_to_profile"}
    /\ result.value["ConnectRequest"].exc = NoExc
    /\ result.value["CheckConnectionRequest"].exc = NoExc
    /\ result.value["_is_valid_linkedin_profile_url"].ret
    /\ result.value["navigate_to_profile"].ret.success
    /\ liveUrl = request.profile_url

\* the log of driver calls l ends with the call of op on the locator loc
EndsWith(l, op, loc) == Len(l) > 0 /\ l[Len(l)].op = op /\ l[Len(l)].loc = loc

\* C23, as claimed: smart_click and smart_type raise nothing and return True or
\* False: True only after the click was dispatched, respectively after every
\* character of the text was inserted, and False on every failure, the element
\* not being found within the timeout included.
C23_ClickAndTypeReturnBooleans ==
    request.op \in {"smart_click", "smart_type"} =>
        /\ result.exc = NoExc
        /\ result.value \in {PyTrue, PyFalse}
        /\ (request.op = "smart_click" /\ result.value = PyTrue) =>
              EndsWith(calls, "click", request.locator)
        /\ (request.op = "smart_type" /\ result.value = PyTrue) =>
              /\ CountOf(calls, "send_keys") = Len(request.arg)
              /\ CountOf(calls, "clear") = 1

\* C30: navigate_to raises nothing; it returns False when there is no browser or
\* the browser does not answer the load, and the last-known location is then as
\* it was; it returns True after a load that the browser answered, and the
\* last-known location is then the URL asked for.  No other primitive changes
\* the last-known location.  get_current_url raises nothing and returns the live
\* location when the browser answers, the last-known location otherwise.
C30_LastKnownLocation ==
    /\ request.op = "navigate_to" =>
          /\ result.exc = NoExc
          /\ result.value \in {PyTrue, PyFalse}
          /\ (result.value = PyFalse) = ~BrowserUp
          /\ result.value = PyFalse => current_url = request.was
          /\ result.value = PyTrue =>
                /\ current_url = request.arg
                /\ EndsWith(calls, "get", "")
    /\ (request.op # "none" /\ current_url # request.was) =>
          request.op = "navigate_to" /\ result.value = PyTrue
    /\ request.op = "get_current_url" =>
          /\ result.exc = NoExc
          /\ result.value = IF BrowserUp THEN liveUrl ELSE current_url
          /\ current_url = request.was

\* a load that failed on a browser that died, after an earlier load had
\* succeeded: the last-known location is still that of the earlier load
C30_Witness ==
    /\ request.op = "navigate_to"
    /\ request.up
    /\ request.fault = [kind |-> "crash", at |-> 0]
    /\ result.value = PyFalse
    /\ request.was = FeedUrl
    /\ request.arg = ProfileBob
    /\ current_url = FeedUrl
    /\ liveUrl = LoginRedirectUrl

\* the locators of the affordances of a profile, of its overflow menu and of the
\* invitation dialog
AffordanceLocators ==
    UNION {Range(connection_status_selectors[k]) : k \in DOMAIN connection_status_selectors}
    \cup UNION {Range(connect_selectors[k]) : k \in DOMAIN connect_selectors}
    \cup Range(note_selectors) \cup Range(send_selectors)

\* the operation probed, clicked or typed into an affordance
TouchedAffordance ==
    \E i \in 1..Len(calls) :
        /\ calls[i].op \in {"probe", "click", "clear", "send_keys"}
        /\ calls[i].loc \in AffordanceLocators

\* C24, as claimed: check_connection_status and send_connection_request probe,
\* click and type into affordances of a browser that answers only while it is
\* at profile_url: from any other location, another profile included, they
\* navigate first.
C24_TouchesOnlyTheProfileAskedFor ==
    (request.op \in {"check_connection_status", "send_connection_request"}
     /\ alive /\ TouchedAffordance) =>
        liveUrl = request.profile_url

\* the positions in the log l of the typing (clear and send_keys) into a
\* candidate of selectors
TypedInto(l, selectors) ==
    {i \in 1..Len(l) : l[i].op \in {"clear", "send_keys"} /\ l[i].loc \in Range(selectors)}

\* the characters sent to the candidates of selectors, in order
RECURSIVE KeysSent(_, _)
KeysSent(l, selectors) ==
    IF l = <<>> THEN <<>>
    ELSE IF Head(l).op = "send_keys" /\ Head(l).loc \in Range(selectors)
         THEN Head(l).arg \o KeysSent(Tail(l), selectors)
         ELSE KeysSent(Tail(l), selectors)

\* the steps of login that follow the form: the click of the submit button and
\* the probes and reads of the validation
AfterForm(l) ==
    {i \in 1..Len(l) :
        \/ l[i].op \in {"click", "find"} /\ l[i].loc \in Range(login_selectors.login_button)
        \/ l[i].op = "probe"
           /\ l[i].loc \in Range(login_selectors.login_button)
                           \cup Range(login_selectors.captcha_challenge)
                           \cup Range(login_selectors.error_messages)
                           \cup Range(nav_selectors)
        \/ l[i].op = "current_url"}

\* C25: when the browser answers and no candidate of the email field is on the
\* login page, or the username was typed and no candidate of the password field
\* is there, login returns success false with error_type element_not_found,
\* neither probes nor clicks the submit button, runs no step of the validation
\* and leaves is_logged_in as it was; and in every login the password is typed
\* only after the whole username was typed into the email field.
C25_UnresolvedFieldStopsLogin ==
    [][(request'.op = "auth_login" /\ "form" \in DOMAIN request') =>
          /\ (/\ alive'
              /\ \/ ~Resolvable(login_selectors.email_input, request'.form)
                 \/ /\ ~Resolvable(login_selectors.password_input, request'.form)
                    /\ KeysSent(calls', login_selectors.email_input) = Username) =>
                /\ result'.exc = NoExc
                /\ ~result'.value.success
                /\ result'.value.error_type = "element_not_found"
                /\ AfterForm(calls') = {}
                /\ TypedInto(calls', login_selectors.password_input) = {}
                /\ is_logged_in' = is_logged_in
          /\ TypedInto(calls', login_selectors.password_input) # {} =>
                /\ KeysSent(calls', login_selectors.email_input) = Username
                /\ \A i \in TypedInto(calls', login_selectors.email_input),
                      j \in TypedInto(calls', login_selectors.password_input) : i < j]_vars

\* the password field is missing once the username is typed, in a session that an
\* earlier login authenticated: element_not_found, and the flag is still set
C25_Witness ==
    /\ request.op = "auth_login"
    /\ "form" \in DOMAIN request
    /\ alive
    /\ Resolvable(login_selectors.email_input, request.form)
    /\ ~Resolvable(login_selectors.password_input, request.form)
    /\ Resolvable(login_selectors.login_button, request.form)
    /\ KeysSent(calls, login_selectors.email_input) = Username
    /\ result.value.error = "Could not find password input field"
    /\ result.value.error_type = "element_not_found"
    /\ is_logged_in

\* the browser answered the i-th driver call of the operation
AnsweredCall(i) == request.up /\ (request.fault.kind = "crash" => i <= request.fault.at)

\* a click on a candidate of selectors was dispatched to a browser that answered
ClickedOn(selectors) ==
    \E i \in 1..Len(calls) :
        calls[i].op = "click" /\ calls[i].loc \in Range(selectors) /\ AnsweredCall(i)

ConnectClicked ==
    \/ ClickedOn(connect_selectors.primary_connect)
    \/ ClickedOn(connect_selectors.dropdown_connect_option)

\* the positions of the driver calls on a candidate of selectors
CallsOn(selectors) == {i \in 1..Len(calls) : calls[i].loc \in Range(selectors)}

\* the overflow menu, once open, holds a Connect option
HasOption ==
    Resolvable(connect_selectors.dropdown_connect_option,
               request.evidence \cup request.menu)

OverflowCalls ==
    CallsOn(connect_selectors.dropdown_connect)
    \cup CallsOn(connect_selectors.dropdown_connect_option)

\* the connect step ran, alone or in send_connection_request, and ended so
ConnectStepFailed ==
    /\ ~result.value.success
    /\ result.value.error_type \in {"connect_button_not_found", "connect_button_error"}

\* the order of the connect step: the Connect button before the overflow path,
\* which is tried only if no click on the Connect button was dispatched; and
\* after a failed connect step nothing touches the note field or the Send button
ConnectOrder ==
    /\ request.op = "_find_and_click_connect_button" =>
          /\ result.exc = NoExc
          /\ result.value.success = ConnectClicked
          /\ \A i \in CallsOn(connect_selectors.primary_connect), j \in OverflowCalls : i < j
          /\ OverflowCalls # {} =>
                /\ ~ClickedOn(connect_selectors.primary_connect)
                /\ CallsOn(connect_selectors.primary_connect) # {}
                /\ ~HasConnect =>
                      \A k \in 1..Len(connect_selectors.primary_connect) :
                          calls[k] = Probe(connect_selectors.primary_connect[k], 3)
          /\ request.fault.kind = "none" /\ request.up =>
                /\ result.value.success = (HasConnect \/ (HasOverflow /\ HasOption))
                /\ HasConnect => result.value.method = "primary_button"
          /\ (request.fault = [kind |-> "inert", at |-> 0] /\ request.up
              /\ HasConnect /\ HasOverflow /\ HasOption) =>
                result.value.success /\ result.value.method = "dropdown_button"
    /\ (request.op = "send_connection_request" /\ ConnectStepFailed) =>
          CallsOn(send_selectors) \cup CallsOn(note_selectors) = {}

C27_NoteIsBestEffort ==
    (request.op = "send_connection_request" /\ CallsOn(note_selectors) # {}
     /\ request.fault.step \in {"none", "note"}) =>
        /\ result.exc = NoExc
        /\ Kind(result.value) = request.expected
        /\ CallsOn(send_selectors) # {}
        /\ \A i \in CallsOn(note_selectors), j \in CallsOn(send_selectors) : i < j
        /\ (alive /\ Resolvable(send_selectors, request.dialog)) =>
              ClickedOn(send_selectors) /\ result.value.success
        /\ ~result.value.success =>
              result.value.error_type \notin {"note_error", "note_input_error"}

\* the note field is inert: no character of the note is typed, the Send button
\* is clicked and the request succeeds
C27_Witness ==
    /\ request.op = "send_connection_request"
    /\ request.fault.step = "note"
    /\ request.fault.kind = "inert"
    /\ Resolvable(note_selectors, request.dialog)
    /\ CallsOn(note_selectors) # {}
    /\ KeysSent(calls, note_selectors) = <<>>
    /\ ClickedOn(send_selectors)
    /\ result.value.success
    /\ result.value.had_note

\* C28: send_connection_request returns success true only after a click on a
\* Connect control and, as its last driver call, a click on the Send button,
\* both dispatched to a browser that answered; when a Connect control was
\* clicked and the Send button was not, it returns success false with
\* error_type send_button_not_found (the dialog holds no Send button),
\* send_button_error (the click failed) or confirmation_error (the browser did
\* not answer the resolution).
C28_SuccessOnlyAfterSendClick ==
    request.op = "send_connection_request" =>
        /\ result.exc = NoExc
        /\ result.value.success =>
              /\ ConnectClicked
              /\ ClickedOn(send_selectors)
              /\ calls[Len(calls)].op = "click"
              /\ calls[Len(calls)].loc \in Range(send_selectors)
        /\ (ConnectClicked /\ ~ClickedOn(send_selectors)) =>
              /\ ~result.value.success
              /\ result.value.error_type \in
                     {"send_button_not_found", "send_button_error", "confirmation_error"}
              /\ (alive /\ ~Resolvable(send_selectors, request.dialog)) =>
                    result.value.error_type = "send_button_not_found"
              /\ (alive /\ Resolvable(send_selectors, request.dialog)) =>
                    result.value.error_type = "send_button_error"

\* the Connect button was clicked, the dialog holds a Send button that is inert:
\* the request fails with send_button_error
C28_Witness ==
    /\ request.op = "send_connection_request"
    /\ request.fault.step = "confirm"
    /\ request.fault.kind = "inert"
    /\ ClickedOn(connect_selectors.primary_connect)
    /\ Resolvable(send_selectors, request.dialog)
    /\ CallsOn(send_selectors) # {}
    /\ ~ClickedOn(send_selectors)
    /\ ~result.value.success
    /\ result.value.error_type = "send_button_error"

\* the probes that _validate_profile_page needs on the page p: up to the first
\* indicator present, or all of them
ProbesToHeader(p) ==
    IF Resolvable(profile_indicators, p)
    THEN Least({i \in 1..Len(profile_indicators) : profile_indicators[i] \in p})
    ELSE Len(profile_indicators)

\* the page load of navigate_to_profile was answered
Navigated == calls # <<>> /\ calls[1].op = "get" /\ AnsweredCall(1)

\* the browser died before one of the probes of the validation
ValidationFaulted ==
    \E i \in 2..(1 + ProbesToHeader(request.load.page)) : ~AnsweredCall(i)

\* the kind that the location url stands for when no indicator is present
LocationKind(url) ==
    IF Contains(<<"/", "authwall">>, url) THEN "auth_required"
    ELSE IF Contains(<<"/", "unavailable">>, url) THEN "profile_unavailable"
    ELSE "validation_failed"

\* the location and page of the browser, and the last-known location, are those
\* that the call found
NothingMoved ==
    /\ calls = <<>>
    /\ liveUrl = request.was
    /\ page = request.shown
    /\ current_url = request.known

\* C29 as stated: navigate_to_profile with a URL that lacks the profile path
\* makes no driver call and returns invalid_url with the location unchanged;
\* after a page load that was answered it returns success if and only if a
\* profile indicator is resolvable, and otherwise auth_required at an authwall
\* location, profile_unavailable at an unavailable location and
\* validation_failed at any other.
C29_HeaderOrOneOfThreeKinds ==
    request.op = "navigate_to_profile" =>
        /\ ~HasMarker(request.profile_url) =>
              /\ NothingMoved
              /\ ~result.value.success
              /\ result.value.error_type = "invalid_url"
        /\ (HasMarker(request.profile_url) /\ Navigated) =>
              /\ result.value.success <=> Resolvable(profile_indicators, page)
              /\ ~result.value.success =>
                    result.value.error_type = LocationKind(liveUrl)

\* C29, amended: navigate_to_profile with a URL that lacks the profile path
\* makes no driver call and returns invalid_url with the location unchanged;
\* with any other URL it loads the URL first and returns navigation_error when
\* the load is not answered; when the browser dies during the probes of the
\* validation it returns validation_error; otherwise it returns success if and
\* only if a profile indicator is resolvable, and else auth_required,
\* profile_unavailable or validation_failed after the location, which is the
\* URL asked for when the browser no longer answers.
C29_HeaderOrOneOfThreeKindsUnlessFault ==
    request.op = "navigate_to_profile" =>
        /\ result.exc = NoExc
        /\ ~HasMarker(request.profile_url) =>
              /\ NothingMoved
              /\ ~result.value.success
              /\ result.value.error_type = "invalid_url"
        /\ HasMarker(request.profile_url) =>
              /\ calls # <<>>
              /\ calls[1] = Call("get", "", request.profile_url)
              /\ ~result.value.success => result.value.error_type =
                    IF ~Navigated THEN "navigation_error"
                    ELSE IF ValidationFaulted THEN "validation_error"
                    ELSE LocationKind(IF alive THEN liveUrl ELSE request.profile_url)
              /\ result.value.success <=>
                    /\ Navigated
                    /\ ~ValidationFaulted
                    /\ Resolvable(profile_indicators, request.load.page)

\* a profile URL was loaded, the site answered with the authwall: auth_required
C29_Witness ==
    /\ request.op = "navigate_to_profile"
    /\ HasMarker(request.profile_url)
    /\ Navigated
    /\ alive
    /\ ~Resolvable(profile_indicators, page)
    /\ liveUrl = AuthwallUrl
    /\ ~result.value.success
    /\ result.value.error_type = "auth_required"

\* C31: a call of _find_element_with_selectors, in any controller, makes no
\* driver call but presence probes of candidates of its locator set, and leaves
\* the authenticated flag, the session id, the last-known location, the browser
\* handle, the page and the location of the browser as they were.
C31_ResolutionHasNoSideEffect ==
    [][(request = Idle /\ request'.op = "resolve") =>
          /\ \A i \in 1..Len(calls') :
                /\ calls'[i].op = "probe"
                /\ calls'[i].loc \in Range(request'.selectors)
          /\ is_logged_in' = is_logged_in
          /\ session_id' = session_id
          /\ current_url' = current_url
          /\ driver' = driver
          /\ launched' = launched
          /\ handlers' = handlers
          /\ page' = page
          /\ liveUrl' = liveUrl]_vars

\* a resolution in an authenticated session that probed several candidates and
\* found one
C31_Witness ==
    /\ request.op = "resolve"
    /\ is_logged_in
    /\ current_url = LINKEDIN_LOGIN_URL
    /\ Len(calls) >= 2
    /\ result.exc = NoExc
    /\ result.value # None

\* C32: whenever is_logged_in is true, the browser that the session holds is one
\* on which a login validation succeeded: a step that leaves the flag true with
\* another browser handle than before is a login that launched that browser and
\* whose validation succeeded on it.
C32_FlagBelongsToBrowser ==
    [][(is_logged_in' /\ driver' # driver) =>
          /\ request'.op = "login"
          /\ result'.value.body.success]_vars

\* C33: in every result of get_session_info, is_logged_in true implies is_active
\* true.
C33_AuthenticatedImpliesActive ==
    request.op = "get_session_info" =>
        (result.value.body.is_logged_in => result.value.body.is_active)

\* C34: in every state a browser handle that is not None goes with a session id
\* that is not None, and a login response with success true carries a session id.
C34_HandleImpliesSessionId ==
    /\ driver # 0 => session_id # 0
    /\ (request.op = "login" /\ result.value.body.success) =>
          result.value.body.session_id # 0

\* the outcome of the login call of the state: that of LinkedInAuth.login, or the
\* body of the response of POST /login
LoginOutcome(req, res) == IF req.op = "login" THEN res.value.body ELSE res.value

\* C35: a login call, of LinkedInAuth or of the endpoint, that does not end in
\* success leaves is_logged_in as it was before the call, true or false.
C35_FailedLoginKeepsFlag ==
    [][(request = Idle /\ request'.op \in {"auth_login", "login"}
        /\ ~LoginOutcome(request', result').success) =>
          is_logged_in' = is_logged_in]_vars

\* a login refused at a challenge surface in a session that an earlier login
\* had authenticated: the flag is still true
C35_Witness ==
    /\ request.op = "auth_login"
    /\ ~result.value.success
    /\ result.value.error_type = "captcha_challenge"
    /\ is_logged_in

\* C36: a send_connection_request that returns success with had_note true was
\* given a note and typed the whole text of it into a note field.
C36_HadNoteOnlyIfTyped ==
    (request.op = "send_connection_request" /\ result.value.success
     /\ result.value.had_note) =>
        /\ request.note # NoneText
        /\ KeysSent(calls, note_selectors) = request.note

\* C37: on the same page, when check_connection_status classifies the profile as
\* connected and can_send_message then returns an answer, that answer is
\* can_message true; the page is the evidence of both and neither changes it.
C37_ConnectedImpliesCanMessage ==
    (request.op = "cross_check" /\ result.value.status.success
     /\ result.value.status.connection_status = "connected") =>
        /\ page = request.evidence
        /\ result.value.messaging.success => result.value.messaging.can_message
        /\ alive => result.value.messaging.success

\* a profile classified as connected by the last locator of the Connected set
\* alone, on which can_send_message reports can_message true
C37_Witness ==
    /\ request.op = "cross_check"
    /\ request.evidence \cap Range(connection_status_selectors.connected)
           = {"css:.pv-s-profile-actions button[aria-label*='Message']"}
    /\ result.value.status.success
    /\ result.value.status.connection_status = "connected"
    /\ result.value.messaging.success
    /\ result.value.messaging.can_message

\* the probes of the conversation surface, the clicks on the Message button and
\* on the Send button that the browser answered, and the typing into the
\* composer input
ThreadProbes ==
    {i \in 1..Len(calls) :
        calls[i].op = "probe"
        /\ calls[i].loc \in Range(message_compose_selectors.message_thread)}
MessageClicks ==
    {i \in 1..Len(calls) :
        calls[i].op = "click" /\ calls[i].loc \in Range(message_button_selectors)
        /\ AnsweredCall(i)}
SendClicks ==
    {i \in 1..Len(calls) :
        calls[i].op = "click"
        /\ calls[i].loc \in Range(message_compose_selectors.send_button)
        /\ AnsweredCall(i)}
ComposerTyping == TypedInto(calls, message_compose_selectors.message_input)

\* the two attempts at the conversation surface: 2 * 3 probes at most
ThreadAttempts == 2 * Len(message_compose_selectors.message_thread)

\* the candidate of the conversation surface that the j-th probe after the click
\* asks for
ThreadCandidate(j) ==
    message_compose_selectors.message_thread[
        ((j - 1) % Len(message_compose_selectors.message_thread)) + 1]

\* C38: send_message returns success true only after, in this order, an
\* answered click on the Message button, the probes of the conversation surface
\* (those of one attempt or of two, never more) with the surface on the page, one
\* clear and the whole text typed character by character into the composer
\* input, and an answered click on the Send button, followed by nothing but the
\* read of the input; once the Send button is clicked it returns success true
\* whatever the read of the input meets; a surface not resolved by the second
\* attempt gives interface_not_loaded without typing; and a conversation that is
\* not on the page yet and is rendered late is found if and only if one of the
\* probes of the two attempts that come after its rendering asks for a candidate
\* present.
C38_SentOnlyAfterEveryStep ==
    request.op = "send_message" =>
        /\ result.exc = NoExc
        /\ result.value.success =>
              \E m \in MessageClicks, s \in SendClicks :
                  /\ ThreadProbes # {}
                  /\ Cardinality(ThreadProbes) <= ThreadAttempts
                  /\ \A p \in ThreadProbes : m < p /\ p < s /\ AnsweredCall(p)
                  /\ Resolvable(message_compose_selectors.message_thread, page)
                  /\ \E t \in ComposerTyping : calls[t].op = "clear"
                  /\ \A t \in ComposerTyping :
                        /\ AnsweredCall(t)
                        /\ t < s
                        /\ \A p \in ThreadProbes : p < t
                  /\ KeysSent(calls, message_compose_selectors.message_input)
                        = request.message
                  /\ \A i \in (s + 1)..Len(calls) :
                        /\ calls[i].op \in {"find", "text"}
                        /\ calls[i].loc = message_compose_selectors.message_input[1]
        /\ SendClicks # {} => result.value.success
        /\ (~result.value.success /\ result.value.error_type = "interface_not_loaded") =>
              /\ MessageClicks # {}
              /\ Cardinality(ThreadProbes) = ThreadAttempts
              /\ CallsOf(calls, {"clear", "send_keys"}) = {}
        /\ (MessageClicks # {} /\ alive
            /\ ~Resolvable(message_compose_selectors.message_thread, Shown)) =>
              /\ ~result.value.success
              /\ result.value.error_type = "interface_not_loaded"
        /\ (request.fault.kind = "lag" /\ request.up /\ ComposerPresent
            /\ ~Resolvable(message_compose_selectors.message_thread, request.evidence)) =>
              (result.value.success <=>
                  \E j \in (request.fault.at + 1)..ThreadAttempts :
                      ThreadCandidate(j) \in Shown)

\* a message sent to a conversation that was rendered late: the first attempt at
\* the conversation surface missed it, the retry found it, and the text was typed
C38_Witness ==
    /\ request.op = "send_message"
    /\ request.fault.kind = "lag"
    /\ result.value.success
    /\ Cardinality(ThreadProbes) > Len(message_compose_selectors.message_thread)
    /\ request.message = <<"H", "i", "!">>
    /\ KeysSent(calls, message_compose_selectors.message_input) = request.message
    /\ SendClicks # {}

============================================================================
